---- MODULE Spec2Model ----
(***************************************************************************)
(* Route table, module loader, route refresh and endpoint hooks of the     *)
(* file-based router in src/src/routing/endpoints.py.                      *)
(*                                                                         *)
(* The module holds several specifications over one set of variables; each *)
(* one drives a single component and leaves the other components' state at *)
(* its initial value:                                                      *)
(*   SpecRoute   : _tokens_from_path, _build_route_table, _match_route     *)
(*   SpecLoad    : ApiRouter._load_endpoint_cls and _load_module_from_file *)
(*                 run by concurrent request threads, the handler file     *)
(*                 edited meanwhile                                        *)
(*   SpecLoadSeq : the same steps, one dispatch at a time                  *)
(*   SpecRefresh : ApiRouter._maybe_refresh_routes and the table reads of  *)
(*                 ApiRouter.default, run by concurrent request threads    *)
(*   SpecRefreshSeq : the same steps, one request at a time                *)
(*   SpecRun     : Endpoint._run, the hooks around one handler call        *)
(*   SpecDispatch : one request through ApiRouter.index / default          *)
(*   SpecBind    : _call_with_binding for one request and handler          *)
(*   SpecTok     : route table construction by the two router copies       *)
(*   SpecIndex   : Pipeline._build_symbol_index over the parsed files      *)
(*   SpecGen     : endpoint keys, dynamic cases and their resolution       *)
(*   SpecDir     : endpoint keys of route files in two directories          *)
(*   SpecType    : annotation translation and the emitted declarations     *)
(*   SpecTwice   : the same pipeline run a second time on the same files    *)
(*   SpecSig     : the same pipeline over method signatures and @params    *)
(*   SpecCyc     : the same pipeline over alias tables with cycles          *)
(*   SpecSub     : load_type_mapping and one subscripted annotation        *)
(***************************************************************************)
EXTENDS Integers, Sequences, FiniteSets, TLC

VARIABLES
    files,      \* route files under api_dir, in discovery (sorted path) order
    routes,     \* ApiRouter._routes
    built,      \* has ApiRouter.__init__ built the table
    req,        \* segments of the request handed to _match_route
    served,     \* has the request been matched
    matched,    \* what _match_route returned for req
    \* -- the handler file of one route, and the loader's shared state
    fileVer,    \* content of the handler file (a version number)
    fileKind,   \* what executing that content does: "ok", "raises", "noclass"
    fileMtime,  \* os.path.getmtime(file_path)
    edits,      \* edits of the file so far
    mods,       \* the module objects created so far, by identity 1..Len(mods)
    sysModules, \* sys.modules.get(module_name): a module identity, 0 for absent
    endpointCache, \* self._endpoint_cache.get(file_path): the module whose
                \* Endpoint class is cached, 0 for absent
    dispatches, \* dispatches started so far
    \* -- one request thread's position and locals
    pc,         \* where the thread is in _load_endpoint_cls/_load_module_from_file
    lmtime,     \* local mtime
    lcached,    \* local cached
    lmod,       \* local mod (the module _load_module_from_file returns)
    res,        \* outcome of the thread's dispatch
    \* -- history of the run, read by the properties only
    startVer,   \* fileVer when the thread's dispatch started
    execd,      \* has the thread's dispatch executed the file
    startGood,  \* goodMod when the thread's dispatch started
    goodMod,    \* the module of a load that succeeded with the file unchanged
                \* since that load read its mtime; 0 after an edit
    lastRes,    \* outcome of the dispatch that finished last
    \* -- the router's tables and the directories they are built from
    devReload,  \* self._dev_reload
    apiDisk,    \* state of api_dir on disk (its newest mtime)
    pagesDisk,  \* state of pages_dir on disk (its newest mtime)
    fsEdits,    \* changes to the two directories so far
    rRoutes,    \* self._routes: [gen, disk], the build it comes from
    rPages,     \* self._page_routes
    rNotFound,  \* self._not_found_page
    rRoutesMtime, \* self._routes_mtime
    rPagesMtime,  \* self._pages_mtime
    nextGen,    \* generations built or begun so far
    requests,   \* requests started so far
    \* -- one request thread's position and locals in default()
    rpc,        \* where the thread is in _maybe_refresh_routes / default
    lRoutesMtime, \* local routes_mtime
    lPagesMtime,  \* local pages_mtime
    myGen,      \* the generation the thread's refresh is building
    lBuilt,     \* pages_dir as the thread's _build_pages_route_table saw it
    seen,       \* the generations of the tables the request has read
    prior,      \* history: the active tables when the thread's refresh began
    \* -- one call of Endpoint._run
    classVerbs, \* the verb-named callables the handler class defines
    method,     \* the request verb handed to _run
    runPc,      \* where _run is
    calls,      \* history: how often each hook and the handler were entered
    initOk,     \* history: init() has returned
    pending,     \* what leaves the try block: a result or the exception raised
    \* -- one request through ApiRouter.index / ApiRouter.default
    dKind,        \* the URL prefix of the request: /api, /assets or neither
    pageRoutes,   \* self._page_routes
    notFoundPage, \* self._not_found_page is set
    pageMatched,  \* the page route the request matched
    status,        \* the response status, none while the request is in flight
    \* -- one call of _call_with_binding
    bQuery,   \* the keys of cherrypy.request.params
    bRoute,   \* the keys of route_params
    bBody,    \* the JSON body as _read_json_body finds it
    bSig,     \* the handler's parameters other than self
    bNumeric, \* the request's string values parse as numbers
    bound,     \* the outcome of _call_with_binding and the kwargs built
    \* -- route table construction by the two router copies
    tkFiles,   \* the route files of the tree
    tkRouting, \* what routing/endpoints.py built from it
    tkCore,     \* what backend/core/endpoints.py built from it
    \* -- Pipeline._build_symbol_index
    scanFiles, \* the parsed files, in scan order
    symbolIndex,        \* the SymbolIndex under construction, with the error raised if any
    scanPos,    \* the next file of the scan
    \* -- contract generation (gen_ts_types.py)
    genFiles, \* the route files handed to the generator, in input order
    genPath,  \* the segments of a concrete request
    genVerb,  \* the verb of that request
    contract, \* what emit_generic_endpoint_spec_maps produced, or its collision error
    picked,    \* the route file the router and the emitted types each select for the request
    \* -- annotation translation and the emitted contract file
    typeIndex,   \* the SymbolIndex of the parsed files
    typeMethods, \* endpoint_metadata_list, the discovered handler methods
    typePos,     \* endpoints Pipeline.build_state has transformed
    typePhase,   \* the state emitter Pipeline.emit_typescript runs next
    typeState,   \* the GeneratorState
    typeOutput,   \* the declarations emitted so far, in file order
    typeRuns,    \* which run of the pipeline this is
    typeFirst,   \* the text the first run returned
    \* -- generic templates
    mapLines,       \* the generic lines of the mapping file, in file order
    genericTypeMap, \* config.generic_type_map as load_type_mapping returned it
    subNode,        \* the subscripted annotation: written base name and argument types
    subResult,      \* what to_typescript_type returned for it
    subPc           \* load, translate or done

routeVars == <<files, routes, built, req, served, matched>>
loadVars == <<fileVer, fileKind, fileMtime, edits, mods, sysModules, endpointCache,
              dispatches, pc, lmtime, lcached, lmod, res, startVer, execd,
              startGood, goodMod, lastRes>>
refreshVars == <<devReload, apiDisk, pagesDisk, fsEdits, rRoutes, rPages, rNotFound,
                 rRoutesMtime, rPagesMtime, nextGen, requests, rpc, lRoutesMtime,
                 lPagesMtime, myGen, lBuilt, seen, prior>>
runVars == <<classVerbs, method, runPc, calls, initOk, pending>>
dispatchVars == <<dKind, pageRoutes, notFoundPage, pageMatched, status>>
bindVars == <<bQuery, bRoute, bBody, bSig, bNumeric, bound>>
tokVars == <<tkFiles, tkRouting, tkCore>>
indexVars == <<scanFiles, symbolIndex, scanPos>>
genVars == <<genFiles, genPath, genVerb, contract, picked>>
typeVars == <<typeIndex, typeMethods, typePos, typePhase, typeState, typeOutput,
              typeRuns, typeFirst>>
subVars == <<mapLines, genericTypeMap, subNode, subResult, subPc>>
vars == <<files, routes, built, req, served, matched,
          fileVer, fileKind, fileMtime, edits, mods, sysModules, endpointCache,
          dispatches, pc, lmtime, lcached, lmod, res, startVer, execd,
          startGood, goodMod, lastRes,
          devReload, apiDisk, pagesDisk, fsEdits, rRoutes, rPages, rNotFound,
          rRoutesMtime, rPagesMtime, nextGen, requests, rpc, lRoutesMtime,
          lPagesMtime, myGen, lBuilt, seen, prior,
          classVerbs, method, runPc, calls, initOk, pending,
          dKind, pageRoutes, notFoundPage, pageMatched, status,
          bQuery, bRoute, bBody, bSig, bNumeric, bound,
          tkFiles, tkRouting, tkCore,
          scanFiles, symbolIndex, scanPos,
          genFiles, genPath, genVerb, contract, picked,
          typeIndex, typeMethods, typePos, typePhase, typeState, typeOutput,
          typeRuns, typeFirst,
          mapLines, genericTypeMap, subNode, subResult, subPc>>

----------------------------------------------------------------------------
(* Bounds *)

MaxFiles == 2
MaxDepth == 2
MaxDispatches == 3
MaxConcurrentDispatches == 2
MaxEdits == 1

----------------------------------------------------------------------------
(* Characters.  Names are one-character strings; a rendered pattern is the  *)
(* sequence of the character codes of its text, so that Python's string     *)
(* comparison is a comparison of code sequences.                            *)

Slash == 47
LBrace == 123
RBrace == 125
Ord == [a |-> 97, b |-> 98, x |-> 120, y |-> 121] @@ ("1" :> 49)

\* One path or filename segment of a route file: a bare literal or a
\* bracket-wrapped name.
Literals == {"a"}
BracketNames == {"x", "y"}
PathSegs == [br : {FALSE}, name : Literals] \cup [br : {TRUE}, name : BracketNames]

\* URL segments a request can carry ("b" is a literal no file is named after).
UrlSegs == {"a", "b"}

RECURSIVE SeqsUpTo(_, _)
SeqsUpTo(S, n) ==
    IF n = 0 THEN {<<>>}
    ELSE LET shorter == SeqsUpTo(S, n - 1)
         IN  shorter \cup {Append(s, e) : s \in {q \in shorter : Len(q) = n - 1}, e \in S}

\* A route file is the sequence dir_parts + stem_parts of its relative path;
\* the empty sequence is the root index.py.
RouteFiles == SeqsUpTo(PathSegs, MaxDepth)
FileLists == SeqsUpTo(RouteFiles, MaxFiles)
Requests == SeqsUpTo(UrlSegs, MaxDepth)

----------------------------------------------------------------------------
(* _tokens_from_path *)

IsDigitLeading(name) == name \in {"0", "1", "2", "3", "4", "5", "6", "7", "8", "9"}

TokenOfSeg(seg) ==
    IF seg.br
    THEN IF seg.name # "" /\ ~IsDigitLeading(seg.name)
         THEN [kind |-> "param", val |-> seg.name]
         ELSE [kind |-> "static", val |-> seg.name]
    ELSE [kind |-> "static", val |-> seg.name]

TokensFromPath(file) == [i \in 1..Len(file) |-> TokenOfSeg(file[i])]

----------------------------------------------------------------------------
(* _build_route_table *)

RenderToken(tok) ==
    IF tok.kind = "param" THEN <<LBrace, Ord[tok.val], RBrace>> ELSE <<Ord[tok.val]>>

RECURSIVE JoinTokens(_, _)
JoinTokens(tokens, i) ==
    IF i > Len(tokens) THEN <<>>
    ELSE IF i = Len(tokens) THEN RenderToken(tokens[i])
    ELSE RenderToken(tokens[i]) \o <<Slash>> \o JoinTokens(tokens, i + 1)

Pattern(tokens) == <<Slash>> \o JoinTokens(tokens, 1)

CountKind(tokens, kind) == Cardinality({i \in 1..Len(tokens) : tokens[i].kind = kind})

RouteEntry(file, idx) ==
    LET tokens == TokensFromPath(file)
    IN  [file |-> idx,
         tokens |-> tokens,
         pattern |-> Pattern(tokens),
         param_count |-> CountKind(tokens, "param"),
         static_count |-> CountKind(tokens, "static")]

\* Python's < on str, as code sequences.
StrLess(s, t) ==
    \E i \in 1..Len(t) :
        /\ i <= Len(s) + 1
        /\ \A j \in 1..(i - 1) : s[j] = t[j]
        /\ IF i = Len(s) + 1 THEN TRUE ELSE s[i] < t[i]

\* key = (param_count, -static_count, pattern), compared as Python tuples.
SortKeyLess(r1, r2) ==
    \/ r1.param_count < r2.param_count
    \/ /\ r1.param_count = r2.param_count
       /\ \/ (0 - r1.static_count) < (0 - r2.static_count)
          \/ /\ r1.static_count = r2.static_count
             /\ StrLess(r1.pattern, r2.pattern)

\* list.sort is stable: an entry goes after every entry whose key is not greater.
RECURSIVE InsertSorted(_, _)
InsertSorted(r, sorted) ==
    IF sorted = <<>> THEN <<r>>
    ELSE IF SortKeyLess(r, Head(sorted)) THEN <<r>> \o sorted
    ELSE <<Head(sorted)>> \o InsertSorted(r, Tail(sorted))

RECURSIVE SortRoutes(_, _)
SortRoutes(unsorted, i) ==
    IF i = 0 THEN <<>>
    ELSE InsertSorted(unsorted[i], SortRoutes(unsorted, i - 1))

\* Mutant: the table is returned in discovery order, the sort left out.
BuildRouteTableUnsorted(fs) == [i \in 1..Len(fs) |-> RouteEntry(fs[i], i)]

BuildRouteTable(fs) ==
    LET unsorted == [i \in 1..Len(fs) |-> RouteEntry(fs[i], i)]
    IN  SortRoutes(unsorted, Len(unsorted))

----------------------------------------------------------------------------
(* _match_route *)

\* dict: a sequence of [k, v] items in insertion order; d[k] = v keeps k's place.
DictHas(d, k) == \E i \in 1..Len(d) : d[i].k = k
DictGet(d, k) == d[CHOOSE i \in 1..Len(d) : d[i].k = k].v
\* Mutant: setdefault instead of assignment, the first value of a key is kept.
DictSetFirstWins(d, k, v) == IF DictHas(d, k) THEN d ELSE Append(d, [k |-> k, v |-> v])

DictSet(d, k, v) ==
    IF DictHas(d, k)
    THEN [i \in 1..Len(d) |-> IF d[i].k = k THEN [k |-> k, v |-> v] ELSE d[i]]
    ELSE Append(d, [k |-> k, v |-> v])

NoMatch == [found |-> FALSE, file |-> 0, params |-> <<>>, pattern |-> <<>>]

\* The inner loop over zip(tokens, segments), from position i with params so far.
RECURSIVE MatchTokens(_, _, _, _)
MatchTokens(tokens, segments, i, params) ==
    IF i > Len(tokens) THEN [ok |-> TRUE, params |-> params]
    ELSE IF tokens[i].kind = "static"
    THEN IF segments[i] # tokens[i].val
         THEN [ok |-> FALSE, params |-> params]
         ELSE MatchTokens(tokens, segments, i + 1, params)
    ELSE MatchTokens(tokens, segments, i + 1, DictSet(params, tokens[i].val, segments[i]))

RECURSIVE MatchFrom(_, _, _)
MatchFrom(rs, segments, n) ==
    IF n > Len(rs) THEN NoMatch
    ELSE IF Len(rs[n].tokens) # Len(segments) THEN MatchFrom(rs, segments, n + 1)
    ELSE LET m == MatchTokens(rs[n].tokens, segments, 1, <<>>)
         IN  IF m.ok
             THEN [found |-> TRUE, file |-> rs[n].file, params |-> m.params,
                   pattern |-> rs[n].pattern]
             ELSE MatchFrom(rs, segments, n + 1)

MatchRoute(rs, segments) == MatchFrom(rs, segments, 1)

----------------------------------------------------------------------------
(* SpecRoute: a file tree, ApiRouter.__init__ building the table, requests  *)
(* matched against it.                                                      *)

RouteInit ==
    /\ files \in FileLists
    /\ routes = <<>>
    /\ built = FALSE
    /\ req = <<>>
    /\ served = FALSE
    /\ matched = NoMatch

RouteIdle ==
    /\ files = <<>>
    /\ routes = <<>>
    /\ built = FALSE
    /\ req = <<>>
    /\ served = FALSE
    /\ matched = NoMatch

\* ApiRouter.__init__: self._routes = _build_route_table(self.api_dir)
RouterInit ==
    /\ ~built
    /\ routes' = BuildRouteTable(files)
    /\ built' = TRUE
    /\ UNCHANGED <<subVars, typeVars, genVars, indexVars, tokVars, bindVars, dispatchVars, files, req, served, matched, loadVars, refreshVars, runVars>>

\* match = _match_route(self._routes, segments), for one request: matching
\* reads the table only, so a behaviour carries a single request.
MatchRequest ==
    /\ built
    /\ ~served
    /\ \E segments \in Requests :
        /\ req' = segments
        /\ matched' = MatchRoute(routes, segments)
    /\ served' = TRUE
    /\ UNCHANGED <<subVars, typeVars, genVars, indexVars, tokVars, bindVars, dispatchVars, files, routes, built, loadVars, refreshVars, runVars>>

RouteNext == RouterInit \/ MatchRequest

----------------------------------------------------------------------------
(* Module loader: ApiRouter._load_endpoint_cls and _load_module_from_file,  *)
(* for the handler file of one matched route.  Each thread step is one      *)
(* access to shared state (sys.modules, a module attribute, the endpoint    *)
(* cache, the file), which is what the interpreter lock makes atomic.       *)

Threads == {1, 2}
Kinds == {"ok", "raises", "noclass"}
None == -1

NoRes == [kind |-> "none", mod |-> 0]

\* Mutant: the module is marked loaded, with its mtime, before it is executed.
NewModuleMarkedLoaded(mtime) ==
    [exec |-> "new", loaded_ok |-> TRUE, file_mtime |-> mtime, ver |-> 0,
     hasClass |-> FALSE]

\* mod = importlib.util.module_from_spec(spec): no __loaded_ok__, no
\* __file_mtime__, nothing executed.
NewModule(mtime) ==
    [exec |-> "new", loaded_ok |-> FALSE, file_mtime |-> None, ver |-> 0,
     hasClass |-> FALSE]

LoadInit ==
    /\ fileVer = 1
    /\ fileKind \in Kinds
    /\ fileMtime = 1
    /\ edits = 0
    /\ mods = <<>>
    /\ sysModules = 0
    /\ endpointCache = 0
    /\ dispatches = 0
    /\ pc = [t \in Threads |-> "idle"]
    /\ lmtime = [t \in Threads |-> 0]
    /\ lcached = [t \in Threads |-> 0]
    /\ lmod = [t \in Threads |-> 0]
    /\ res = [t \in Threads |-> NoRes]
    /\ startVer = [t \in Threads |-> 0]
    /\ execd = [t \in Threads |-> FALSE]
    /\ startGood = [t \in Threads |-> 0]
    /\ goodMod = 0
    /\ lastRes = "none"

LoadIdle ==
    /\ LoadInit
    /\ fileKind = "ok"

\* The handler file is rewritten: new content, new mtime.
EditFile ==
    /\ edits < MaxEdits
    /\ edits' = edits + 1
    /\ fileVer' = fileVer + 1
    /\ fileMtime' = fileMtime + 1
    /\ fileKind' \in Kinds
    /\ goodMod' = 0
    /\ UNCHANGED <<subVars, typeVars, genVars, indexVars, tokVars, bindVars, dispatchVars, routeVars, refreshVars, runVars, mods, sysModules, endpointCache, dispatches, pc, lmtime, lcached,
                   lmod, res, startVer, execd, startGood, lastRes>>

\* _load_endpoint_cls: cached = self._endpoint_cache.get(file_path);
\* if cached is not None: return cached
StartDispatchUpTo(t, most) ==
    /\ pc[t] = "idle"
    /\ dispatches < most
    /\ dispatches' = dispatches + 1
    /\ startVer' = [startVer EXCEPT ![t] = fileVer]
    /\ startGood' = [startGood EXCEPT ![t] = goodMod]
    /\ execd' = [execd EXCEPT ![t] = FALSE]
    /\ IF endpointCache # 0
       THEN /\ res' = [res EXCEPT ![t] = [kind |-> "cls", mod |-> endpointCache]]
            /\ pc' = [pc EXCEPT ![t] = "done"]
       ELSE /\ res' = [res EXCEPT ![t] = NoRes]
            /\ pc' = [pc EXCEPT ![t] = "getmtime"]
    /\ UNCHANGED <<subVars, typeVars, genVars, indexVars, tokVars, bindVars, dispatchVars, routeVars, refreshVars, runVars, fileVer, fileKind, fileMtime, edits, mods, sysModules,
                   endpointCache, lmtime, lcached, lmod, goodMod, lastRes>>

\* a dispatch started while others may be running
StartDispatch(t) == StartDispatchUpTo(t, MaxConcurrentDispatches)

\* mtime = os.path.getmtime(file_path)
GetMtime(t) ==
    /\ pc[t] = "getmtime"
    /\ lmtime' = [lmtime EXCEPT ![t] = fileMtime]
    /\ pc' = [pc EXCEPT ![t] = "getcached"]
    /\ UNCHANGED <<subVars, typeVars, genVars, indexVars, tokVars, bindVars, dispatchVars, routeVars, refreshVars, runVars, fileVer, fileKind, fileMtime, edits, mods, sysModules,
                   endpointCache, dispatches, lcached, lmod, res, startVer, execd,
                   startGood, goodMod, lastRes>>

\* cached = sys.modules.get(module_name); if cached is not None and ...
GetCached(t) ==
    /\ pc[t] = "getcached"
    /\ lcached' = [lcached EXCEPT ![t] = sysModules]
    /\ pc' = [pc EXCEPT ![t] = IF sysModules = 0 THEN "pop2" ELSE "chk_ok"]
    /\ UNCHANGED <<subVars, typeVars, genVars, indexVars, tokVars, bindVars, dispatchVars, routeVars, refreshVars, runVars, fileVer, fileKind, fileMtime, edits, mods, sysModules,
                   endpointCache, dispatches, lmtime, lmod, res, startVer, execd,
                   startGood, goodMod, lastRes>>

\* ... getattr(cached, "__loaded_ok__", False)
CheckLoadedOk(t) ==
    /\ pc[t] = "chk_ok"
    /\ pc' = [pc EXCEPT ![t] = IF mods[lcached[t]].loaded_ok THEN "chk_mtime" ELSE "pop2"]
    /\ UNCHANGED <<subVars, typeVars, genVars, indexVars, tokVars, bindVars, dispatchVars, routeVars, refreshVars, runVars, fileVer, fileKind, fileMtime, edits, mods, sysModules,
                   endpointCache, dispatches, lmtime, lcached, lmod, res, startVer,
                   execd, startGood, goodMod, lastRes>>

\* Mutant: the mtime comparison is lost, a loaded module is always reloaded.
CheckMtimeAlwaysStale(t) ==
    /\ pc[t] = "chk_mtime"
    /\ pc' = [pc EXCEPT ![t] = "pop1"]
    /\ UNCHANGED <<subVars, typeVars, genVars, indexVars, tokVars, bindVars, dispatchVars, routeVars, refreshVars, runVars, fileVer, fileKind, fileMtime, edits, mods, sysModules,
                   endpointCache, dispatches, lmtime, lcached, lmod, res, startVer,
                   execd, startGood, goodMod, lastRes>>

\* cached_mtime = getattr(cached, "__file_mtime__", None);
\* if cached_mtime == mtime: return cached
CheckMtime(t) ==
    /\ pc[t] = "chk_mtime"
    /\ IF mods[lcached[t]].file_mtime = lmtime[t]
       THEN /\ lmod' = [lmod EXCEPT ![t] = lcached[t]]
            /\ pc' = [pc EXCEPT ![t] = "loaded"]
       ELSE /\ lmod' = lmod
            /\ pc' = [pc EXCEPT ![t] = "pop1"]
    /\ UNCHANGED <<subVars, typeVars, genVars, indexVars, tokVars, bindVars, dispatchVars, routeVars, refreshVars, runVars, fileVer, fileKind, fileMtime, edits, mods, sysModules,
                   endpointCache, dispatches, lmtime, lcached, res, startVer, execd,
                   startGood, goodMod, lastRes>>

\* File changed: sys.modules.pop(module_name, None)
PopStale(t) ==
    /\ pc[t] = "pop1"
    /\ sysModules' = 0
    /\ pc' = [pc EXCEPT ![t] = "pop2"]
    /\ UNCHANGED <<subVars, typeVars, genVars, indexVars, tokVars, bindVars, dispatchVars, routeVars, refreshVars, runVars, fileVer, fileKind, fileMtime, edits, mods, endpointCache,
                   dispatches, lmtime, lcached, lmod, res, startVer, execd,
                   startGood, goodMod, lastRes>>

\* Partial/bad module lying around: sys.modules.pop(module_name, None)
PopPartial(t) ==
    /\ pc[t] = "pop2"
    /\ sysModules' = 0
    /\ pc' = [pc EXCEPT ![t] = "insert"]
    /\ UNCHANGED <<subVars, typeVars, genVars, indexVars, tokVars, bindVars, dispatchVars, routeVars, refreshVars, runVars, fileVer, fileKind, fileMtime, edits, mods, endpointCache,
                   dispatches, lmtime, lcached, lmod, res, startVer, execd,
                   startGood, goodMod, lastRes>>

\* mod = module_from_spec(spec); sys.modules[module_name] = mod
InsertModule(t) ==
    /\ pc[t] = "insert"
    /\ mods' = Append(mods, NewModule(lmtime[t]))
    /\ lmod' = [lmod EXCEPT ![t] = Len(mods) + 1]
    /\ sysModules' = Len(mods) + 1
    /\ pc' = [pc EXCEPT ![t] = "exec"]
    /\ UNCHANGED <<subVars, typeVars, genVars, indexVars, tokVars, bindVars, dispatchVars, routeVars, refreshVars, runVars, fileVer, fileKind, fileMtime, edits, endpointCache, dispatches,
                   lmtime, lcached, res, startVer, execd, startGood, goodMod, lastRes>>

\* spec.loader.exec_module(mod): reads the file as it is now and runs it.
ExecModule(t) ==
    /\ pc[t] = "exec"
    /\ execd' = [execd EXCEPT ![t] = TRUE]
    /\ IF fileKind = "raises"
       THEN /\ mods' = [mods EXCEPT ![lmod[t]].exec = "failed", ![lmod[t]].ver = fileVer]
            /\ pc' = [pc EXCEPT ![t] = "popfail"]
       ELSE /\ mods' = [mods EXCEPT ![lmod[t]].exec = "done", ![lmod[t]].ver = fileVer,
                                    ![lmod[t]].hasClass = (fileKind = "ok")]
            /\ pc' = [pc EXCEPT ![t] = "set_ok"]
    /\ UNCHANGED <<subVars, typeVars, genVars, indexVars, tokVars, bindVars, dispatchVars, routeVars, refreshVars, runVars, fileVer, fileKind, fileMtime, edits, sysModules, endpointCache,
                   dispatches, lmtime, lcached, lmod, res, startVer, startGood,
                   goodMod, lastRes>>

\* setattr(mod, "__loaded_ok__", True)
SetLoadedOk(t) ==
    /\ pc[t] = "set_ok"
    /\ mods' = [mods EXCEPT ![lmod[t]].loaded_ok = TRUE]
    /\ pc' = [pc EXCEPT ![t] = "set_mtime"]
    /\ UNCHANGED <<subVars, typeVars, genVars, indexVars, tokVars, bindVars, dispatchVars, routeVars, refreshVars, runVars, fileVer, fileKind, fileMtime, edits, sysModules, endpointCache,
                   dispatches, lmtime, lcached, lmod, res, startVer, execd,
                   startGood, goodMod, lastRes>>

\* setattr(mod, "__file_mtime__", mtime); return mod
SetFileMtime(t) ==
    /\ pc[t] = "set_mtime"
    /\ mods' = [mods EXCEPT ![lmod[t]].file_mtime = lmtime[t]]
    /\ pc' = [pc EXCEPT ![t] = "loaded"]
    /\ goodMod' = IF lmtime[t] = fileMtime THEN lmod[t] ELSE goodMod
    /\ UNCHANGED <<subVars, typeVars, genVars, indexVars, tokVars, bindVars, dispatchVars, routeVars, refreshVars, runVars, fileVer, fileKind, fileMtime, edits, sysModules, endpointCache,
                   dispatches, lmtime, lcached, lmod, res, startVer, execd,
                   startGood, lastRes>>

\* Mutant: the failed module is left in sys.modules.
PopFailedKeep(t) ==
    /\ pc[t] = "popfail"
    /\ res' = [res EXCEPT ![t] = [kind |-> "loadfail", mod |-> lmod[t]]]
    /\ pc' = [pc EXCEPT ![t] = "done"]
    /\ UNCHANGED <<subVars, typeVars, genVars, indexVars, tokVars, bindVars, dispatchVars, routeVars, refreshVars, runVars, fileVer, fileKind, fileMtime, edits, mods, sysModules,
                   endpointCache, dispatches, lmtime, lcached, lmod, startVer, execd,
                   startGood, goodMod, lastRes>>

\* except Exception: sys.modules.pop(module_name, None); raise
PopFailed(t) ==
    /\ pc[t] = "popfail"
    /\ sysModules' = 0
    /\ res' = [res EXCEPT ![t] = [kind |-> "loadfail", mod |-> lmod[t]]]
    /\ pc' = [pc EXCEPT ![t] = "done"]
    /\ UNCHANGED <<subVars, typeVars, genVars, indexVars, tokVars, bindVars, dispatchVars, routeVars, refreshVars, runVars, fileVer, fileKind, fileMtime, edits, mods, endpointCache,
                   dispatches, lmtime, lcached, lmod, startVer, execd, startGood,
                   goodMod, lastRes>>

\* Mutant: whatever getattr returned is taken as the handler class.
GetEndpointClassUnchecked(t) ==
    /\ pc[t] = "loaded"
    /\ res' = res
    /\ pc' = [pc EXCEPT ![t] = "store"]
    /\ UNCHANGED <<subVars, typeVars, genVars, indexVars, tokVars, bindVars, dispatchVars, routeVars, refreshVars, runVars, fileVer, fileKind, fileMtime, edits, mods, sysModules,
                   endpointCache, dispatches, lmtime, lcached, lmod, startVer, execd,
                   startGood, goodMod, lastRes>>

\* endpoint_cls = getattr(mod, "Endpoint", None); if endpoint_cls is None or
\* not a class: raise HTTPError(500)
GetEndpointClass(t) ==
    /\ pc[t] = "loaded"
    /\ IF mods[lmod[t]].hasClass
       THEN /\ res' = res
            /\ pc' = [pc EXCEPT ![t] = "store"]
       ELSE /\ res' = [res EXCEPT ![t] = [kind |-> "error500", mod |-> lmod[t]]]
            /\ pc' = [pc EXCEPT ![t] = "done"]
    /\ UNCHANGED <<subVars, typeVars, genVars, indexVars, tokVars, bindVars, dispatchVars, routeVars, refreshVars, runVars, fileVer, fileKind, fileMtime, edits, mods, sysModules,
                   endpointCache, dispatches, lmtime, lcached, lmod, startVer, execd,
                   startGood, goodMod, lastRes>>

\* self._endpoint_cache[file_path] = endpoint_cls; return endpoint_cls
StoreEndpointClass(t) ==
    /\ pc[t] = "store"
    /\ endpointCache' = lmod[t]
    /\ res' = [res EXCEPT ![t] = [kind |-> "cls", mod |-> lmod[t]]]
    /\ pc' = [pc EXCEPT ![t] = "done"]
    /\ UNCHANGED <<subVars, typeVars, genVars, indexVars, tokVars, bindVars, dispatchVars, routeVars, refreshVars, runVars, fileVer, fileKind, fileMtime, edits, mods, sysModules, dispatches,
                   lmtime, lcached, lmod, startVer, execd, startGood, goodMod, lastRes>>

\* The request ends; the thread takes the next one.
FinishDispatch(t) ==
    /\ pc[t] = "done"
    /\ lastRes' = res[t].kind
    /\ pc' = [pc EXCEPT ![t] = "idle"]
    /\ lmtime' = [lmtime EXCEPT ![t] = 0]
    /\ lcached' = [lcached EXCEPT ![t] = 0]
    /\ lmod' = [lmod EXCEPT ![t] = 0]
    /\ res' = [res EXCEPT ![t] = NoRes]
    /\ startVer' = [startVer EXCEPT ![t] = 0]
    /\ startGood' = [startGood EXCEPT ![t] = 0]
    /\ execd' = [execd EXCEPT ![t] = FALSE]
    /\ UNCHANGED <<subVars, typeVars, genVars, indexVars, tokVars, bindVars, dispatchVars, routeVars, refreshVars, runVars, fileVer, fileKind, fileMtime, edits, mods, sysModules,
                   endpointCache, dispatches, goodMod>>

LoadStep(t) ==
    \/ GetMtime(t)
    \/ GetCached(t)
    \/ CheckLoadedOk(t)
    \/ CheckMtime(t)
    \/ PopStale(t)
    \/ PopPartial(t)
    \/ InsertModule(t)
    \/ ExecModule(t)
    \/ SetLoadedOk(t)
    \/ SetFileMtime(t)
    \/ PopFailed(t)
    \/ GetEndpointClass(t)
    \/ StoreEndpointClass(t)
    \/ FinishDispatch(t)

\* Requests served by a thread pool: dispatches overlap.
LoadNext ==
    \/ EditFile
    \/ \E t \in Threads : StartDispatch(t) \/ LoadStep(t)

\* Requests arriving one after the other: a dispatch starts when none is in flight.
StartDispatchAlone(t) ==
    /\ \A u \in Threads : pc[u] = "idle"
    /\ StartDispatchUpTo(t, MaxDispatches)

LoadSeqNext ==
    \/ EditFile
    \/ \E t \in Threads : StartDispatchAlone(t) \/ LoadStep(t)

----------------------------------------------------------------------------
(* Route refresh: ApiRouter.__init__, ApiRouter._maybe_refresh_routes and   *)
(* the reads of self._page_routes, self._routes and self._not_found_page by *)
(* a GET request in ApiRouter.default.  A table is modelled by the build    *)
(* that produced it (its generation) and the directory state it was built   *)
(* from; each thread step is one read or write of a router attribute.       *)

NoSeen == [routes |-> None, pages |-> None, nf |-> None]
NoPrior == [routes |-> None, pages |-> None, nf |-> None]
Table(gen, disk) == [gen |-> gen, disk |-> disk]

\* ApiRouter.__init__: the tables and mtimes of the first generation.
RefreshInit ==
    /\ devReload \in BOOLEAN
    /\ apiDisk = 1
    /\ pagesDisk = 1
    /\ fsEdits = 0
    /\ rRoutes = Table(0, 1)
    /\ rPages = Table(0, 1)
    /\ rNotFound = Table(0, 1)
    /\ rRoutesMtime = 1
    /\ rPagesMtime = 1
    /\ nextGen = 1
    /\ requests = 0
    /\ rpc = [t \in Threads |-> "idle"]
    /\ lRoutesMtime = [t \in Threads |-> 0]
    /\ lPagesMtime = [t \in Threads |-> 0]
    /\ myGen = [t \in Threads |-> 0]
    /\ lBuilt = [t \in Threads |-> 0]
    /\ seen = [t \in Threads |-> NoSeen]
    /\ prior = [t \in Threads |-> NoPrior]

RefreshIdle ==
    /\ RefreshInit
    /\ devReload = FALSE

\* A .py file under api_dir is added, removed or rewritten.
EditApiDir ==
    /\ fsEdits < MaxEdits
    /\ fsEdits' = fsEdits + 1
    /\ apiDisk' = apiDisk + 1
    /\ UNCHANGED <<subVars, typeVars, genVars, indexVars, tokVars, bindVars, dispatchVars, routeVars, loadVars, runVars, devReload, pagesDisk, rRoutes, rPages,
                   rNotFound, rRoutesMtime, rPagesMtime, nextGen, requests, rpc,
                   lRoutesMtime, lPagesMtime, myGen, lBuilt, seen, prior>>

\* A .tsx file under pages_dir is added, removed or rewritten.
EditPagesDir ==
    /\ fsEdits < MaxEdits
    /\ fsEdits' = fsEdits + 1
    /\ pagesDisk' = pagesDisk + 1
    /\ UNCHANGED <<subVars, typeVars, genVars, indexVars, tokVars, bindVars, dispatchVars, routeVars, loadVars, runVars, devReload, apiDisk, rRoutes, rPages,
                   rNotFound, rRoutesMtime, rPagesMtime, nextGen, requests, rpc,
                   lRoutesMtime, lPagesMtime, myGen, lBuilt, seen, prior>>

\* default(): self._maybe_refresh_routes(); if not self._dev_reload: return
StartRequest(t) ==
    /\ rpc[t] = "idle"
    /\ requests < MaxDispatches
    /\ requests' = requests + 1
    /\ seen' = [seen EXCEPT ![t] = NoSeen]
    /\ prior' = [prior EXCEPT ![t] = [routes |-> rRoutes.gen, pages |-> rPages.gen,
                                      nf |-> rNotFound.gen]]
    /\ rpc' = [rpc EXCEPT ![t] = IF devReload THEN "api_mtime" ELSE "read_pages"]
    /\ UNCHANGED <<subVars, typeVars, genVars, indexVars, tokVars, bindVars, dispatchVars, routeVars, loadVars, runVars, devReload, apiDisk, pagesDisk, fsEdits,
                   rRoutes, rPages, rNotFound, rRoutesMtime, rPagesMtime, nextGen,
                   lRoutesMtime, lPagesMtime, myGen, lBuilt>>

\* routes_mtime = _dir_mtime(self.api_dir, suffixes={".py"})
ReadApiMtime(t) ==
    /\ rpc[t] = "api_mtime"
    /\ lRoutesMtime' = [lRoutesMtime EXCEPT ![t] = apiDisk]
    /\ rpc' = [rpc EXCEPT ![t] = "pages_mtime"]
    /\ UNCHANGED <<subVars, typeVars, genVars, indexVars, tokVars, bindVars, dispatchVars, routeVars, loadVars, runVars, devReload, apiDisk, pagesDisk, fsEdits,
                   rRoutes, rPages, rNotFound, rRoutesMtime, rPagesMtime, nextGen,
                   requests, lPagesMtime, myGen, lBuilt, seen, prior>>

\* pages_mtime = _dir_mtime(self.pages_dir, suffixes={".tsx"})
ReadPagesMtime(t) ==
    /\ rpc[t] = "pages_mtime"
    /\ lPagesMtime' = [lPagesMtime EXCEPT ![t] = pagesDisk]
    /\ rpc' = [rpc EXCEPT ![t] = "compare"]
    /\ UNCHANGED <<subVars, typeVars, genVars, indexVars, tokVars, bindVars, dispatchVars, routeVars, loadVars, runVars, devReload, apiDisk, pagesDisk, fsEdits,
                   rRoutes, rPages, rNotFound, rRoutesMtime, rPagesMtime, nextGen,
                   requests, lRoutesMtime, myGen, lBuilt, seen, prior>>

\* if routes_mtime == self._routes_mtime and pages_mtime == self._pages_mtime: return
CompareMtimes(t) ==
    /\ rpc[t] = "compare"
    /\ IF lRoutesMtime[t] = rRoutesMtime /\ lPagesMtime[t] = rPagesMtime
       THEN /\ rpc' = [rpc EXCEPT ![t] = "read_pages"]
            /\ UNCHANGED <<subVars, typeVars, genVars, indexVars, tokVars, bindVars, dispatchVars, myGen, nextGen>>
       ELSE /\ rpc' = [rpc EXCEPT ![t] = "build_api"]
            /\ myGen' = [myGen EXCEPT ![t] = nextGen]
            /\ nextGen' = nextGen + 1
    /\ UNCHANGED <<subVars, typeVars, genVars, indexVars, tokVars, bindVars, dispatchVars, routeVars, loadVars, runVars, devReload, apiDisk, pagesDisk, fsEdits,
                   rRoutes, rPages, rNotFound, rRoutesMtime, rPagesMtime, requests,
                   lRoutesMtime, lPagesMtime, lBuilt, seen, prior>>

\* self._routes = _build_route_table(self.api_dir); the scan may raise.
BuildApiRoutes(t) ==
    /\ rpc[t] = "build_api"
    /\ \E raises \in BOOLEAN :
        IF raises
        THEN /\ rpc' = [rpc EXCEPT ![t] = "failed"]
             /\ rRoutes' = rRoutes
        ELSE /\ rpc' = [rpc EXCEPT ![t] = "build_pages"]
             /\ rRoutes' = Table(myGen[t], apiDisk)
    /\ UNCHANGED <<subVars, typeVars, genVars, indexVars, tokVars, bindVars, dispatchVars, routeVars, loadVars, runVars, devReload, apiDisk, pagesDisk, fsEdits,
                   rPages, rNotFound, rRoutesMtime, rPagesMtime, nextGen, requests,
                   lRoutesMtime, lPagesMtime, myGen, lBuilt, seen, prior>>

\* self._page_routes, ... = _build_pages_route_table(self.pages_dir); the
\* scan may raise; the first target of the tuple assignment is stored.
BuildPageRoutes(t) ==
    /\ rpc[t] = "build_pages"
    /\ \E raises \in BOOLEAN :
        IF raises
        THEN /\ rpc' = [rpc EXCEPT ![t] = "failed"]
             /\ UNCHANGED <<subVars, typeVars, genVars, indexVars, tokVars, bindVars, dispatchVars, rPages, lBuilt>>
        ELSE /\ rpc' = [rpc EXCEPT ![t] = "store_nf"]
             /\ rPages' = Table(myGen[t], pagesDisk)
             /\ lBuilt' = [lBuilt EXCEPT ![t] = pagesDisk]
    /\ UNCHANGED <<subVars, typeVars, genVars, indexVars, tokVars, bindVars, dispatchVars, routeVars, loadVars, runVars, devReload, apiDisk, pagesDisk, fsEdits,
                   rRoutes, rNotFound, rRoutesMtime, rPagesMtime, nextGen, requests,
                   lRoutesMtime, lPagesMtime, myGen, seen, prior>>

\* ..., self._not_found_page = ...: the second target, of the same build.
StoreNotFound(t) ==
    /\ rpc[t] = "store_nf"
    /\ rNotFound' = Table(myGen[t], lBuilt[t])
    /\ rpc' = [rpc EXCEPT ![t] = "store_rm"]
    /\ UNCHANGED <<subVars, typeVars, genVars, indexVars, tokVars, bindVars, dispatchVars, routeVars, loadVars, runVars, devReload, apiDisk, pagesDisk, fsEdits,
                   rRoutes, rPages, rRoutesMtime, rPagesMtime, nextGen, requests,
                   lRoutesMtime, lPagesMtime, myGen, lBuilt, seen, prior>>

\* self._routes_mtime = routes_mtime
StoreRoutesMtime(t) ==
    /\ rpc[t] = "store_rm"
    /\ rRoutesMtime' = lRoutesMtime[t]
    /\ rpc' = [rpc EXCEPT ![t] = "store_pm"]
    /\ UNCHANGED <<subVars, typeVars, genVars, indexVars, tokVars, bindVars, dispatchVars, routeVars, loadVars, runVars, devReload, apiDisk, pagesDisk, fsEdits,
                   rRoutes, rPages, rNotFound, rPagesMtime, nextGen, requests,
                   lRoutesMtime, lPagesMtime, myGen, lBuilt, seen, prior>>

\* self._pages_mtime = pages_mtime; _maybe_refresh_routes returns
StorePagesMtime(t) ==
    /\ rpc[t] = "store_pm"
    /\ rPagesMtime' = lPagesMtime[t]
    /\ rpc' = [rpc EXCEPT ![t] = "read_pages"]
    /\ UNCHANGED <<subVars, typeVars, genVars, indexVars, tokVars, bindVars, dispatchVars, routeVars, loadVars, runVars, devReload, apiDisk, pagesDisk, fsEdits,
                   rRoutes, rPages, rNotFound, rRoutesMtime, nextGen, requests,
                   lRoutesMtime, lPagesMtime, myGen, lBuilt, seen, prior>>

\* page_match = _match_route(self._page_routes, segments)
ReadPageRoutes(t) ==
    /\ rpc[t] = "read_pages"
    /\ seen' = [seen EXCEPT ![t].pages = rPages.gen]
    /\ rpc' = [rpc EXCEPT ![t] = "read_routes"]
    /\ UNCHANGED <<subVars, typeVars, genVars, indexVars, tokVars, bindVars, dispatchVars, routeVars, loadVars, runVars, devReload, apiDisk, pagesDisk, fsEdits,
                   rRoutes, rPages, rNotFound, rRoutesMtime, rPagesMtime, nextGen,
                   requests, lRoutesMtime, lPagesMtime, myGen, lBuilt, prior>>

\* endpoint_match = _match_route(self._routes, segments)
ReadApiRoutes(t) ==
    /\ rpc[t] = "read_routes"
    /\ seen' = [seen EXCEPT ![t].routes = rRoutes.gen]
    /\ rpc' = [rpc EXCEPT ![t] = "read_nf"]
    /\ UNCHANGED <<subVars, typeVars, genVars, indexVars, tokVars, bindVars, dispatchVars, routeVars, loadVars, runVars, devReload, apiDisk, pagesDisk, fsEdits,
                   rRoutes, rPages, rNotFound, rRoutesMtime, rPagesMtime, nextGen,
                   requests, lRoutesMtime, lPagesMtime, myGen, lBuilt, prior>>

\* neither matched: if self._not_found_page: ...
ReadNotFound(t) ==
    /\ rpc[t] = "read_nf"
    /\ seen' = [seen EXCEPT ![t].nf = rNotFound.gen]
    /\ rpc' = [rpc EXCEPT ![t] = "served"]
    /\ UNCHANGED <<subVars, typeVars, genVars, indexVars, tokVars, bindVars, dispatchVars, routeVars, loadVars, runVars, devReload, apiDisk, pagesDisk, fsEdits,
                   rRoutes, rPages, rNotFound, rRoutesMtime, rPagesMtime, nextGen,
                   requests, lRoutesMtime, lPagesMtime, myGen, lBuilt, prior>>

\* The request ends, served or with the refresh's exception.
EndRequest(t) ==
    /\ rpc[t] \in {"served", "failed"}
    /\ rpc' = [rpc EXCEPT ![t] = "idle"]
    /\ lRoutesMtime' = [lRoutesMtime EXCEPT ![t] = 0]
    /\ lPagesMtime' = [lPagesMtime EXCEPT ![t] = 0]
    /\ myGen' = [myGen EXCEPT ![t] = 0]
    /\ lBuilt' = [lBuilt EXCEPT ![t] = 0]
    /\ seen' = [seen EXCEPT ![t] = NoSeen]
    /\ prior' = [prior EXCEPT ![t] = NoPrior]
    /\ UNCHANGED <<subVars, typeVars, genVars, indexVars, tokVars, bindVars, dispatchVars, routeVars, loadVars, runVars, devReload, apiDisk, pagesDisk, fsEdits,
                   rRoutes, rPages, rNotFound, rRoutesMtime, rPagesMtime, nextGen,
                   requests>>

RefreshStep(t) ==
    \/ ReadApiMtime(t)
    \/ ReadPagesMtime(t)
    \/ CompareMtimes(t)
    \/ BuildApiRoutes(t)
    \/ BuildPageRoutes(t)
    \/ StoreNotFound(t)
    \/ StoreRoutesMtime(t)
    \/ StorePagesMtime(t)
    \/ ReadPageRoutes(t)
    \/ ReadApiRoutes(t)
    \/ ReadNotFound(t)
    \/ EndRequest(t)

\* Requests served by a thread pool.
RefreshNext ==
    \/ EditApiDir
    \/ EditPagesDir
    \/ \E t \in Threads : StartRequest(t) \/ RefreshStep(t)

\* Requests arriving one after the other.
StartRequestAlone(t) ==
    /\ \A u \in Threads : rpc[u] = "idle"
    /\ StartRequest(t)

RefreshSeqNext ==
    \/ EditApiDir
    \/ EditPagesDir
    \/ \E t \in Threads : StartRequestAlone(t) \/ RefreshStep(t)

----------------------------------------------------------------------------
(* Endpoint._run: init(), then inside try: auth(), the verb lookup and the  *)
(* handler call, then in finally: cleanup() with its exceptions swallowed.  *)
(* Each step is one hook or handler call, returning or raising.             *)

HttpMethods == {"get", "post", "put", "patch", "delete", "options", "head"}
ClassVerbSets == SUBSET {"get", "post"}
RequestVerbs == {m \in HttpMethods : m \in {"get", "post", "delete"}}

NoCalls == [init |-> 0, auth |-> 0, handler |-> 0, cleanup |-> 0, swallowed |-> 0]

RunInit ==
    /\ classVerbs \in ClassVerbSets
    /\ method \in RequestVerbs
    /\ runPc = "init"
    /\ calls = NoCalls
    /\ initOk = FALSE
    /\ pending = "none"

RunIdle ==
    /\ RunInit
    /\ classVerbs = {}
    /\ method = "get"

\* self.init(), outside the try block: its exception leaves _run at once.
CallInit ==
    /\ runPc = "init"
    /\ calls' = [calls EXCEPT !.init = @ + 1]
    /\ \E raises \in BOOLEAN :
        IF raises
        THEN /\ runPc' = "raised"
             /\ pending' = "init_error"
             /\ initOk' = FALSE
        ELSE /\ runPc' = "auth"
             /\ pending' = pending
             /\ initOk' = TRUE
    /\ UNCHANGED <<subVars, typeVars, genVars, indexVars, tokVars, bindVars, dispatchVars, routeVars, loadVars, refreshVars, classVerbs, method>>

\* try: self.auth()
CallAuth ==
    /\ runPc = "auth"
    /\ calls' = [calls EXCEPT !.auth = @ + 1]
    /\ \E raises \in BOOLEAN :
        IF raises
        THEN /\ runPc' = "cleanup"
             /\ pending' = "auth_error"
        ELSE /\ runPc' = "lookup"
             /\ pending' = pending
    /\ UNCHANGED <<subVars, typeVars, genVars, indexVars, tokVars, bindVars, dispatchVars, routeVars, loadVars, refreshVars, classVerbs, method, initOk>>

\* fn = getattr(self, method, None); if not callable(fn): raise HTTPError(405)
LookupVerb ==
    /\ runPc = "lookup"
    /\ IF method \in classVerbs
       THEN /\ runPc' = "call"
            /\ pending' = pending
       ELSE /\ runPc' = "cleanup"
            /\ pending' = "error405"
    /\ UNCHANGED <<subVars, typeVars, genVars, indexVars, tokVars, bindVars, dispatchVars, routeVars, loadVars, refreshVars, classVerbs, method, calls, initOk>>

\* The handler call without the finally clause: an exception leaves _run
\* with cleanup() never entered.
CallHandlerNoFinally ==
    /\ runPc = "call"
    /\ \E outcome \in {"returns", "raises", "unbound"} :
        /\ calls' = IF outcome = "unbound" THEN calls
                    ELSE [calls EXCEPT !.handler = @ + 1]
        /\ pending' = CASE outcome = "returns" -> "result"
                        [] outcome = "raises" -> "handler_error"
                        [] OTHER -> "error400"
        /\ runPc' = IF outcome = "returns" THEN "cleanup" ELSE "raised"
    /\ UNCHANGED <<subVars, typeVars, genVars, indexVars, tokVars, bindVars, dispatchVars, routeVars, loadVars, refreshVars, classVerbs, method, initOk>>

\* return _call_with_binding(fn, route_params): the binding raises 400 before
\* the handler is entered, or the handler returns or raises.
CallHandler ==
    /\ runPc = "call"
    /\ \E outcome \in {"returns", "raises", "unbound"} :
        /\ calls' = IF outcome = "unbound" THEN calls
                    ELSE [calls EXCEPT !.handler = @ + 1]
        /\ pending' = CASE outcome = "returns" -> "result"
                        [] outcome = "raises" -> "handler_error"
                        [] OTHER -> "error400"
        /\ runPc' = "cleanup"
    /\ UNCHANGED <<subVars, typeVars, genVars, indexVars, tokVars, bindVars, dispatchVars, routeVars, loadVars, refreshVars, classVerbs, method, initOk>>

\* Mutant: cleanup() called without the inner try, its exception replacing
\* the result or the pending exception.
CallCleanupNotSwallowed ==
    /\ runPc = "cleanup"
    /\ \E raises \in BOOLEAN :
        /\ calls' = [calls EXCEPT !.cleanup = @ + 1,
                                  !.swallowed = IF raises THEN @ + 1 ELSE @]
        /\ pending' = IF raises THEN "cleanup_error" ELSE pending
        /\ runPc' = IF pending = "result" /\ ~raises THEN "returned" ELSE "raised"
    /\ UNCHANGED <<subVars, typeVars, genVars, indexVars, tokVars, bindVars, dispatchVars, routeVars, loadVars, refreshVars, classVerbs, method, initOk>>

\* finally: try: self.cleanup() except Exception: pass; then the result is
\* returned or the pending exception goes on.
CallCleanup ==
    /\ runPc = "cleanup"
    /\ \E raises \in BOOLEAN :
        calls' = [calls EXCEPT !.cleanup = @ + 1,
                               !.swallowed = IF raises THEN @ + 1 ELSE @]
    /\ runPc' = IF pending = "result" THEN "returned" ELSE "raised"
    /\ UNCHANGED <<subVars, typeVars, genVars, indexVars, tokVars, bindVars, dispatchVars, routeVars, loadVars, refreshVars, classVerbs, method, initOk, pending>>

RunNext == CallInit \/ CallAuth \/ LookupVerb \/ CallHandler \/ CallCleanup

----------------------------------------------------------------------------
(* Dispatch: ApiRouter.index and ApiRouter.default for one request, from    *)
(* the URL to the response status, the handler run by Endpoint._run.  The   *)
(* request is its prefix (/api/..., /assets/..., or neither), the segments  *)
(* after the prefix, and the verb.                                          *)

MaxTreeFiles == 1

PathKinds == {"api", "assets", "plain"}
DispatchSegs == UrlSegs \cup {"__routes"}
DispatchRequests == {<<>>} \cup {<<s>> : s \in DispatchSegs}
DispatchVerbs == {"get", "post", "trace"}
DispatchFiles == {f \in RouteFiles : Len(f) <= 1 /\ \A i \in 1..Len(f) : f[i].name \in {"a", "x"}}
DispatchTrees == SeqsUpTo(DispatchFiles, MaxTreeFiles)

DispatchInit ==
    /\ dKind \in PathKinds
    /\ pageRoutes \in {BuildRouteTable(fs) : fs \in DispatchTrees}
    /\ notFoundPage \in BOOLEAN
    /\ pageMatched = NoMatch
    /\ status = "none"

DispatchIdle ==
    /\ dKind = "plain"
    /\ pageRoutes = <<>>
    /\ notFoundPage = FALSE
    /\ pageMatched = NoMatch
    /\ status = "none"

\* The router as ApiRouter.__init__ leaves it, and the request about to be
\* dispatched.
DispatchRouteInit ==
    /\ files \in DispatchTrees
    /\ routes = BuildRouteTable(files)
    /\ built = TRUE
    /\ req \in DispatchRequests
    /\ served = FALSE
    /\ matched = NoMatch

\* The handler class of the matched file and the request verb; _run has not
\* been entered.
DispatchRunInit ==
    /\ classVerbs \in ClassVerbSets
    /\ method \in DispatchVerbs
    /\ runPc = "wait"
    /\ calls = NoCalls
    /\ initOk = FALSE
    /\ pending = "none"

\* endpoint_cls = self._load_endpoint_cls(file): the module raises while it
\* is loaded, or exports no Endpoint class (HTTPError 500), or the class is
\* returned.
LoadOutcome == IF fileKind = "ok" THEN "cls" ELSE "500"

\* Mutant: a path that matches no API route is answered 200 with an empty body.
NoRouteStatusOk(kind) == "200"

\* The status of a request that reached route matching and matched nothing:
\* the /api branch sets 404, the others raise HTTPError(404) or serve the
\* [404].tsx page with status 404.
NoRouteStatus(kind) ==
    IF kind = "plain" /\ method \in {"get", "head"} /\ notFoundPage
    THEN "page404"
    ELSE "404"

\* ApiRouter.index, which CherryPy calls for the path "/".
Index ==
    /\ status = "none"
    /\ ~served
    /\ dKind = "plain"
    /\ req = <<>>
    /\ served' = TRUE
    /\ LET pm == MatchRoute(pageRoutes, <<>>) IN
        /\ pageMatched' = IF method \in {"get", "head"} THEN pm ELSE pageMatched
        /\ status' = IF method \notin {"get", "head"} THEN "405"
                     ELSE IF pm.found THEN "page200"
                     ELSE "200"
    /\ UNCHANGED <<subVars, typeVars, genVars, indexVars, tokVars, bindVars, files, routes, built, req, matched, loadVars, refreshVars, runVars,
                   dKind, pageRoutes, notFoundPage>>

\* ApiRouter.default for /api/<segments>.
DefaultApi ==
    /\ status = "none"
    /\ ~served
    /\ dKind = "api"
    /\ served' = TRUE
    /\ LET am == MatchRoute(routes, req) IN
        IF req = <<>> \/ req = <<"__routes">>
        THEN /\ status' = "listing"
             /\ UNCHANGED <<subVars, typeVars, genVars, indexVars, tokVars, bindVars, matched, runPc>>
        ELSE IF method \notin HttpMethods
        THEN /\ status' = "405"
             /\ UNCHANGED <<subVars, typeVars, genVars, indexVars, tokVars, bindVars, matched, runPc>>
        ELSE /\ matched' = am
             /\ IF ~am.found
                THEN /\ status' = NoRouteStatus(dKind)
                     /\ runPc' = runPc
                ELSE IF LoadOutcome = "cls"
                THEN /\ status' = status
                     /\ runPc' = "init"
                ELSE /\ status' = "500"
                     /\ runPc' = runPc
    /\ UNCHANGED <<subVars, typeVars, genVars, indexVars, tokVars, bindVars, files, routes, built, req, loadVars, refreshVars, classVerbs, method,
                   calls, initOk, pending, dKind, pageRoutes, notFoundPage, pageMatched>>

\* ApiRouter.default for /assets/<segments>: the file is served or 404.
DefaultAssets ==
    /\ status = "none"
    /\ ~served
    /\ dKind = "assets"
    /\ served' = TRUE
    /\ \E isFile \in BOOLEAN : status' = IF isFile THEN "asset" ELSE "404"
    /\ UNCHANGED <<subVars, typeVars, genVars, indexVars, tokVars, bindVars, files, routes, built, req, matched, loadVars, refreshVars, runVars,
                   dKind, pageRoutes, notFoundPage, pageMatched>>

\* ApiRouter.default for any other path: pages first for GET and HEAD, then
\* the endpoint of the same path.
DefaultPlain ==
    /\ status = "none"
    /\ ~served
    /\ dKind = "plain"
    /\ req # <<>>
    /\ served' = TRUE
    /\ LET am == MatchRoute(routes, req)
           pm == MatchRoute(pageRoutes, req) IN
        IF method \notin HttpMethods
        THEN /\ status' = "405"
             /\ UNCHANGED <<subVars, typeVars, genVars, indexVars, tokVars, bindVars, matched, pageMatched, runPc>>
        ELSE /\ matched' = am
             /\ pageMatched' = IF method \in {"get", "head"} THEN pm ELSE pageMatched
             /\ IF method \in {"get", "head"} /\ pm.found
                THEN /\ status' = IF am.found /\ LoadOutcome # "cls" THEN "500"
                                  ELSE IF am.found /\ "get" \in classVerbs THEN "500"
                                  ELSE "page200"
                     /\ runPc' = runPc
                ELSE IF ~am.found
                THEN /\ status' = NoRouteStatus(dKind)
                     /\ runPc' = runPc
                ELSE IF LoadOutcome = "cls"
                THEN /\ status' = status
                     /\ runPc' = "init"
                ELSE /\ status' = "500"
                     /\ runPc' = runPc
    /\ UNCHANGED <<subVars, typeVars, genVars, indexVars, tokVars, bindVars, files, routes, built, req, loadVars, refreshVars, classVerbs, method,
                   calls, initOk, pending, dKind, pageRoutes, notFoundPage>>

\* return _serialize(result), or the exception _run raised becomes the
\* response: the HTTPError's status, 500 for any other exception.
Respond ==
    /\ status = "none"
    /\ runPc \in {"returned", "raised"}
    /\ status' = CASE runPc = "returned" -> "200"
                   [] pending = "error405" -> "405"
                   [] pending = "error400" -> "400"
                   [] OTHER -> "hook_or_handler_error"
    /\ UNCHANGED <<subVars, typeVars, genVars, indexVars, tokVars, bindVars, routeVars, loadVars, refreshVars, runVars,
                   dKind, pageRoutes, notFoundPage, pageMatched>>

DispatchNext == Index \/ DefaultApi \/ DefaultAssets \/ DefaultPlain \/ RunNext \/ Respond

----------------------------------------------------------------------------
(* Binding: _call_with_binding for one handler call.  A dict is a function  *)
(* on its key set; a value records where it came from and its shape, so     *)
(* that _coerce changes it visibly.                                         *)

MaxParams == 2

Keys == {"id", "n"}
Anns == {"none", "int", "record"}
RecordFields == {"id"}
BodyKinds == {"none", "invalid", "other", "dict"}

Params == [name : Keys, ann : Anns, hasDefault : BOOLEAN]
Signatures ==
    {s \in SeqsUpTo(Params, MaxParams) :
        \A i, j \in 1..Len(s) : s[i].name = s[j].name => i = j}
Bodies == {[kind |-> k, keys |-> {}] : k \in BodyKinds \ {"dict"}}
              \cup {[kind |-> "dict", keys |-> ks] : ks \in SUBSET Keys}

Value(from, shape, keys) == [from |-> from, shape |-> shape, keys |-> keys]
StrDict(from, ks) == [k \in ks |-> Value(from, "str", {})]
BodyDict(body) == [k \in body.keys |-> Value("body", "json", {})]
WholeBody(body) == Value("wholebody", "dict", body.keys)
DefaultOf(p) == Value("default", "default", {})
CoerceError == Value("error", "error", {})

\* Mutant: the entries already in the map are kept.
DictUpdateKeepsFirst(d, e) ==
    [k \in DOMAIN d \cup DOMAIN e |-> IF k \in DOMAIN d THEN d[k] ELSE e[k]]

\* merged.update(route_params)
DictUpdate(d, e) ==
    [k \in DOMAIN d \cup DOMAIN e |-> IF k \in DOMAIN e THEN e[k] ELSE d[k]]

\* Mutant: body fields overwrite the entries already in the map.
DictSetDefaultOverwrites(d, e) ==
    [k \in DOMAIN d \cup DOMAIN e |-> IF k \in DOMAIN e THEN e[k] ELSE d[k]]

\* for k, v in body.items(): merged.setdefault(k, v)
DictSetDefault(d, e) ==
    [k \in DOMAIN d \cup DOMAIN e |-> IF k \in DOMAIN d THEN d[k] ELSE e[k]]

\* merged = dict(request.params); merged.update(route_params); then, for a
\* JSON object body, setdefault of each of its fields.
Merged(query, route, body) ==
    LET m == DictUpdate(StrDict("query", query), StrDict("route", route)) IN
    IF body.kind = "dict" THEN DictSetDefault(m, BodyDict(body)) ELSE m

\* _coerce(value, ann): int() of a string fails unless it is numeric, and of
\* a dict always; a dict becomes the record when its keys are the record's
\* fields.
Coerce(value, ann, numeric) ==
    CASE ann = "none" -> value
      [] ann = "record" ->
            IF value.shape = "dict"
            THEN IF value.keys = RecordFields
                 THEN [value EXCEPT !.shape = "record"]
                 ELSE CoerceError
            ELSE value
      [] ann = "int" ->
            IF value.shape = "dict" \/ (value.shape = "str" /\ ~numeric)
            THEN CoerceError
            ELSE [value EXCEPT !.shape = "int"]

\* Mutant: a declared default is preferred to the whole body.
ResolveDefaultFirst(p, sig, merged, body) ==
    IF p.name \in DOMAIN merged THEN merged[p.name]
    ELSE IF p.hasDefault THEN DefaultOf(p)
    ELSE IF Len(sig) = 1 /\ p.ann = "record" /\ body.kind = "dict" THEN WholeBody(body)
    ELSE Value("missing", "missing", {})

\* The raw value of one parameter: the merged entry, else the whole body for
\* a single record parameter, else the declared default, else missing.
Resolve(p, sig, merged, body) ==
    IF p.name \in DOMAIN merged THEN merged[p.name]
    ELSE IF Len(sig) = 1 /\ p.ann = "record" /\ body.kind = "dict" THEN WholeBody(body)
    ELSE IF p.hasDefault THEN DefaultOf(p)
    ELSE Value("missing", "missing", {})

\* The loop over sig.parameters from parameter i on: 400 at the first
\* missing parameter, the exception of _coerce at the first value it rejects,
\* else fn(**kwargs).
RECURSIVE BindFrom(_, _, _, _, _, _)
BindFrom(sig, i, merged, body, numeric, kwargs) ==
    IF i > Len(sig) THEN [outcome |-> "called", kwargs |-> kwargs]
    ELSE LET p == sig[i]
             raw == Resolve(p, sig, merged, body)
             val == Coerce(raw, p.ann, numeric) IN
         IF raw.from = "missing" THEN [outcome |-> "error400", kwargs |-> kwargs]
         ELSE IF val = CoerceError THEN [outcome |-> "coerce_error", kwargs |-> kwargs]
         ELSE BindFrom(sig, i + 1, merged, body, numeric,
                       [k \in DOMAIN kwargs \cup {p.name} |->
                           IF k = p.name THEN val ELSE kwargs[k]])

NoBound == [outcome |-> "none", kwargs |-> <<>>]

BindInit ==
    /\ bQuery \in SUBSET Keys
    /\ bRoute \in SUBSET Keys
    /\ bBody \in Bodies
    /\ bSig \in Signatures
    /\ bNumeric \in BOOLEAN
    /\ bound = NoBound

BindIdle ==
    /\ bQuery = {}
    /\ bRoute = {}
    /\ bBody = [kind |-> "none", keys |-> {}]
    /\ bSig = <<>>
    /\ bNumeric = FALSE
    /\ bound = NoBound

\* _call_with_binding(fn, route_params): body = _read_json_body() raises 400
\* for a body that is not JSON; then the loop and the call.
CallWithBinding ==
    /\ bound = NoBound
    /\ bound' = IF bBody.kind = "invalid"
                THEN [outcome |-> "error400", kwargs |-> <<>>]
                ELSE BindFrom(bSig, 1, Merged(bQuery, bRoute, bBody), bBody, bNumeric, <<>>)
    /\ UNCHANGED <<subVars, typeVars, genVars, indexVars, tokVars, routeVars, loadVars, refreshVars, runVars, dispatchVars,
                   bQuery, bRoute, bBody, bSig, bNumeric>>

BindNext == CallWithBinding

----------------------------------------------------------------------------
(* Token validation: _build_route_table over a tree that may hold a         *)
(* bracket-wrapped segment with a digit-leading name, as built by each of   *)
(* the two copies of the router (routing/endpoints.py and                   *)
(* backend/core/endpoints.py).                                              *)

DigitNames == {"1"}
TokSegs == PathSegs \cup [br : BOOLEAN, name : DigitNames]
TokFiles == SeqsUpTo(TokSegs, MaxDepth)
TokTrees == SeqsUpTo(TokFiles, MaxTreeFiles)

NotBuilt == [done |-> FALSE, error |-> FALSE, table |-> <<>>]

\* backend/core: if not name or name[0].isdigit(): raise ValueError
InvalidParamSeg(seg) == seg.br /\ (seg.name = "" \/ IsDigitLeading(seg.name))
HasInvalidParamSeg(file) == \E i \in 1..Len(file) : InvalidParamSeg(file[i])

\* routing/endpoints.py: _tokens_from_path never raises, so the table is
\* built whatever the names are.
BuildRouting(fs) == [done |-> TRUE, error |-> FALSE, table |-> BuildRouteTable(fs)]

\* backend/core/endpoints.py: the ValueError of _tokens_from_path leaves
\* _build_route_table before any table is returned.
BuildCore(fs) ==
    IF \E i \in 1..Len(fs) : HasInvalidParamSeg(fs[i])
    THEN [done |-> TRUE, error |-> TRUE, table |-> <<>>]
    ELSE [done |-> TRUE, error |-> FALSE, table |-> BuildRouteTable(fs)]

TokInit ==
    /\ tkFiles \in TokTrees
    /\ tkRouting = NotBuilt
    /\ tkCore = NotBuilt

TokIdle ==
    /\ tkFiles = <<>>
    /\ tkRouting = NotBuilt
    /\ tkCore = NotBuilt

\* routing.endpoints.ApiRouter.__init__: _build_route_table(self.api_dir)
RoutingRouterInit ==
    /\ ~tkRouting.done
    /\ tkRouting' = BuildRouting(tkFiles)
    /\ UNCHANGED <<subVars, typeVars, genVars, indexVars, routeVars, loadVars, refreshVars, runVars, dispatchVars, bindVars,
                   tkFiles, tkCore>>

\* backend.core.endpoints.ApiRouter.__init__: _build_route_table(self.api_dir)
CoreRouterInit ==
    /\ ~tkCore.done
    /\ tkCore' = BuildCore(tkFiles)
    /\ UNCHANGED <<subVars, typeVars, genVars, indexVars, routeVars, loadVars, refreshVars, runVars, dispatchVars, bindVars,
                   tkFiles, tkRouting>>

TokNext == RoutingRouterInit \/ CoreRouterInit

----------------------------------------------------------------------------
(* Symbol index: Pipeline._build_symbol_index over the parsed files.  A     *)
(* record declaration is its base names and its own annotated fields (one   *)
(* field name, "id", declared with one of two annotations or not at all); a *)
(* file is its dataclass declarations in source order and its alias names.  *)

MaxScanFiles == 2

RecNames == {"Note", "Base"}
FieldAnns == {"none", "int", "str"}
NoteDecls == [bases : {<<>>, <<"Base">>}, own : FieldAnns]
BaseDecls == [bases : {<<>>}, own : {"none", "int"}]
DeclsOf(name) == IF name = "Note" THEN NoteDecls ELSE BaseDecls

\* collect_dataclass_class_nodes: a dict by class name, in source order.
ClassLists ==
    {<<>>}
    \cup {<<[name |-> n, decl |-> d]>> : n \in RecNames, d \in NoteDecls \cup BaseDecls}
    \cup {<<[name |-> n, decl |-> d], [name |-> m, decl |-> e]>> :
            n \in RecNames, m \in RecNames, d \in NoteDecls \cup BaseDecls,
            e \in NoteDecls \cup BaseDecls}
WellFormedClassList(cl) ==
    /\ \A i \in 1..Len(cl) : cl[i].decl \in DeclsOf(cl[i].name)
    /\ \A i, j \in 1..Len(cl) : cl[i].name = cl[j].name => i = j
ParsedFiles ==
    {[classes |-> cl, aliases |-> al] :
        cl \in {c \in ClassLists : WellFormedClassList(c)}, al \in SUBSET {"Note"}}
\* the scans of n parsed files
ScanLists(n) == [1..n -> ParsedFiles]

\* Mutant: the signature leaves the base names out.
ShapeSignatureOwnFieldsOnly(decl) ==
    IF decl.own = "none" THEN <<>> ELSE <<<<"id", decl.own>>>>

\* build_dataclass_shape_signature: ("__bases__", "A|B") when the class has
\* bases, then (field, annotation text) of the class's own fields, sorted by
\* field name ("__bases__" sorts before "id").
ShapeSignature(decl) ==
    (IF decl.bases # <<>> THEN <<<<"__bases__", decl.bases[1]>>>> ELSE <<>>)
        \o (IF decl.own = "none" THEN <<>> ELSE <<<<"id", decl.own>>>>)

DictPut(d, k, v) == [x \in DOMAIN d \cup {k} |-> IF x = k THEN v ELSE d[x]]

NoError == [kind |-> "none", name |-> "", first |-> 0, second |-> 0,
            firstSig |-> <<>>, secondSig |-> <<>>]
EmptyIndex == [dataclasses |-> <<>>, aliases |-> <<>>, signatures |-> <<>>,
               duplicates |-> {}, error |-> NoError]

\* Mutant: a record declared under the name of an alias is registered.
AddDataclassOverAlias(ix, name, decl, src) ==
    IF ix.error # NoError THEN ix
    ELSE IF name \in DOMAIN ix.dataclasses
    THEN LET existingSig == IF name \in DOMAIN ix.signatures THEN ix.signatures[name]
                            ELSE ShapeSignature(ix.dataclasses[name].decl)
             newSig == ShapeSignature(decl)
             ix1 == [ix EXCEPT !.signatures = DictPut(ix.signatures, name, existingSig)]
         IN  IF existingSig = newSig
             THEN [ix1 EXCEPT !.duplicates = @ \cup {[name |-> name, src |-> src]}]
             ELSE [ix1 EXCEPT !.error =
                      [kind |-> "shape", name |-> name,
                       first |-> ix.dataclasses[name].src, second |-> src,
                       firstSig |-> existingSig, secondSig |-> newSig]]
    ELSE [ix EXCEPT !.dataclasses = DictPut(ix.dataclasses, name, [decl |-> decl, src |-> src])]

\* The body of the loop over dataclass_nodes_by_name for one class.
AddDataclass(ix, name, decl, src) ==
    IF ix.error # NoError THEN ix
    ELSE IF name \in DOMAIN ix.dataclasses
    THEN LET existingSig == IF name \in DOMAIN ix.signatures THEN ix.signatures[name]
                            ELSE ShapeSignature(ix.dataclasses[name].decl)
             newSig == ShapeSignature(decl)
             ix1 == [ix EXCEPT !.signatures = DictPut(ix.signatures, name, existingSig)]
         IN  IF existingSig = newSig
             THEN [ix1 EXCEPT !.duplicates = @ \cup {[name |-> name, src |-> src]}]
             ELSE [ix1 EXCEPT !.error =
                      [kind |-> "shape", name |-> name,
                       first |-> ix.dataclasses[name].src, second |-> src,
                       firstSig |-> existingSig, secondSig |-> newSig]]
    ELSE IF name \in DOMAIN ix.aliases
    THEN [ix EXCEPT !.error =
             [kind |-> "alias_then_dataclass", name |-> name,
              first |-> ix.aliases[name], second |-> src,
              firstSig |-> <<>>, secondSig |-> <<>>]]
    ELSE [ix EXCEPT !.dataclasses = DictPut(ix.dataclasses, name, [decl |-> decl, src |-> src])]

\* The body of the loop over aliases_in_file for one alias.
AddAlias(ix, name, src) ==
    IF ix.error # NoError THEN ix
    ELSE IF name \in DOMAIN ix.aliases
    THEN [ix EXCEPT !.error =
             [kind |-> "alias_twice", name |-> name,
              first |-> ix.aliases[name], second |-> src,
              firstSig |-> <<>>, secondSig |-> <<>>]]
    ELSE IF name \in DOMAIN ix.dataclasses
    THEN [ix EXCEPT !.error =
             [kind |-> "dataclass_then_alias", name |-> name,
              first |-> ix.dataclasses[name].src, second |-> src,
              firstSig |-> <<>>, secondSig |-> <<>>]]
    ELSE [ix EXCEPT !.aliases = DictPut(ix.aliases, name, src)]

RECURSIVE AddDataclasses(_, _, _, _)
AddDataclasses(ix, cl, i, src) ==
    IF i > Len(cl) THEN ix
    ELSE AddDataclasses(AddDataclass(ix, cl[i].name, cl[i].decl, src), cl, i + 1, src)

\* One parsed file: its dataclasses in source order, then its aliases.
ScanOne(ix, file, src) ==
    LET ix1 == AddDataclasses(ix, file.classes, 1, src) IN
    IF "Note" \in file.aliases THEN AddAlias(ix1, "Note", src) ELSE ix1

IndexInit ==
    /\ \E n \in 1..MaxScanFiles : scanFiles \in ScanLists(n)
    /\ symbolIndex = EmptyIndex
    /\ scanPos = 1

IndexIdle ==
    /\ scanFiles = <<>>
    /\ symbolIndex = EmptyIndex
    /\ scanPos = 1

\* One iteration of `for parsed_file in parsed_files`; a RuntimeError ends
\* the scan.
ScanFile ==
    /\ scanPos <= Len(scanFiles)
    /\ symbolIndex.error = NoError
    /\ symbolIndex' = ScanOne(symbolIndex, scanFiles[scanPos], scanPos)
    /\ scanPos' = scanPos + 1
    /\ UNCHANGED <<subVars, typeVars, genVars, routeVars, loadVars, refreshVars, runVars, dispatchVars, bindVars,
                   tokVars, scanFiles>>

IndexNext == ScanFile

----------------------------------------------------------------------------
(* Contract generation: the endpoint keys Pipeline._collect_endpoints       *)
(* derives from the route files of a flat api directory, the dynamic        *)
(* template index and the ordered dynamic cases of                          *)
(* emit_generic_endpoint_spec_maps, and the emitted resolution rule.  A     *)
(* route file is its stem's dot-separated parts and the one verb method its *)
(* Endpoint class defines; strings are code sequences.                      *)

MaxGenFiles == 2

Dot == 46
LBracket == 91
RBracket == 93
Wild == 0

GenVerbs == {"get", "post"}
VerbChars == [get |-> <<103, 101, 116>>, post |-> <<112, 111, 115, 116>>]
GenStems == {f \in RouteFiles : Len(f) \in {1, 2}}
GenRouteFiles == [stem : GenStems, verb : GenVerbs]
GenTrees ==
    {fs \in SeqsUpTo(GenRouteFiles, MaxGenFiles) :
        \A i, j \in 1..Len(fs) : fs[i].stem = fs[j].stem => i = j}
GenPaths == {s \in Requests : Len(s) \in {1, 2}}

\* Route files in the directories a and b of the api directory: dir is the
\* directory of the file, stem its Path.stem, a single part.
GenDirs == {"a", "b"}
DirRouteFiles == [dir : GenDirs, stem : {f \in GenStems : Len(f) = 1}, verb : GenVerbs]
DirTrees ==
    {fs \in SeqsUpTo(DirRouteFiles, MaxGenFiles) :
        \A i, j \in 1..Len(fs) :
            (fs[i].dir = fs[j].dir /\ fs[i].stem = fs[j].stem) => i = j}

\* One part of a file stem as it is written in the endpoint key.
PartChars(seg) ==
    IF seg.br THEN <<LBracket, Ord[seg.name], RBracket>> ELSE <<Ord[seg.name]>>

\* DYNAMIC_SEGMENT_REGEX.sub("${string}", ...) on one part.
PartTemplate(seg) == IF seg.br THEN <<Wild>> ELSE <<Ord[seg.name]>>

\* ".".join(rendered parts) + ".", the verb being appended by the caller.
RECURSIVE FlattenDotted(_, _)
FlattenDotted(rendered, i) ==
    IF i > Len(rendered) THEN <<>>
    ELSE rendered[i] \o <<Dot>> \o FlattenDotted(rendered, i + 1)
JoinDotted(parts, i, Render(_)) ==
    FlattenDotted([n \in 1..Len(parts) |-> Render(parts[n])], i)

\* endpoint_key = f"{file_stem}.{effective_method_name}"
EndpointKeyText(f) == JoinDotted(f.stem, 1, PartChars) \o VerbChars[f.verb]

\* endpoint_key_to_template_literal_key
TemplateKeyText(f) == JoinDotted(f.stem, 1, PartTemplate) \o VerbChars[f.verb]

\* The key of a concrete request: its segments and verb, dotted.
UrlChars(s) == <<Ord[s]>>
ConcreteKeyText(segments, verb) == JoinDotted(segments, 1, UrlChars) \o VerbChars[verb]

\* is_dynamic_endpoint_key
IsDynamic(f) == \E i \in 1..Len(f.stem) : f.stem[i].br

\* len(extract_path_variables(endpoint_key)): distinct bracketed names.
VariableCount(f) == Cardinality({f.stem[i].name : i \in {j \in 1..Len(f.stem) : f.stem[j].br}})

\* _collect_endpoints: one EndpointMetadata per file, in file order.
Endpoint(f, src) ==
    [stem |-> f.stem, verb |-> f.verb, src |-> src, key |-> EndpointKeyText(f),
     template |-> TemplateKeyText(f), dynamic |-> IsDynamic(f),
     variables |-> VariableCount(f)]
CollectEndpoints(fs) == [i \in 1..Len(fs) |-> Endpoint(fs[i], i)]

\* sorted(...) of entries whose keys are pairwise different (no two endpoint
\* keys are equal): an entry's place is the number of entries below it.
SortedBy(unsorted, i, Less(_, _)) ==
    LET Rank(n) == Cardinality({m \in 1..i : Less(unsorted[m], unsorted[n])})
    IN  [k \in 1..i |-> unsorted[CHOOSE n \in 1..i : Rank(n) = k - 1]]

KeyLess(e1, e2) == StrLess(e1.key, e2.key)

NoCollision == [found |-> FALSE, first |-> <<>>, second |-> <<>>, firstSrc |-> 0, secondSrc |-> 0]

\* build_dynamic_template_index over the keys sorted as strings: the first
\* key whose template an earlier, different key already produced.
TemplateCollision(keys, i) ==
    LET hits == {n \in 1..Len(keys) :
                    \E m \in 1..(n - 1) : keys[m].template = keys[n].template
                                          /\ keys[m].key # keys[n].key}
    IN  IF hits = {} THEN NoCollision
        ELSE LET n == CHOOSE n \in hits : \A h \in hits : n <= h
                 \* the dict holds the last earlier key with this template
                 m == CHOOSE m \in 1..(n - 1) :
                        /\ keys[m].template = keys[n].template
                        /\ \A q \in (m + 1)..(n - 1) : keys[q].template # keys[n].template
             IN  [found |-> TRUE, first |-> keys[m].key, second |-> keys[n].key,
                  firstSrc |-> keys[m].src, secondSrc |-> keys[n].src]

\* dynamic_sort_key: (-variable_count, -len(endpoint_key), endpoint_key)
DynamicSortKeyLess(e1, e2) ==
    \/ e1.variables > e2.variables
    \/ /\ e1.variables = e2.variables
       /\ \/ Len(e1.key) > Len(e2.key)
          \/ Len(e1.key) = Len(e2.key) /\ StrLess(e1.key, e2.key)

\* build_state: endpoint_source_files_by_key filled from endpoint i on, or
\* the RuntimeError of the first key that is already in it.
RECURSIVE EndpointSourceFiles(_, _, _)
\* Mutant: a key met again replaces the source file recorded for it.
EndpointSourceFilesLastWins(eps, i, byKey) ==
    NoCollision

EndpointSourceFiles(eps, i, byKey) ==
    IF i > Len(eps) THEN NoCollision
    ELSE IF eps[i].key \in DOMAIN byKey
    THEN [found |-> TRUE, first |-> eps[i].key, second |-> eps[i].key,
          firstSrc |-> byKey[eps[i].key], secondSrc |-> eps[i].src]
    ELSE EndpointSourceFiles(eps, i + 1, DictPut(byKey, eps[i].key, eps[i].src))

NotGenerated == [done |-> FALSE, collision |-> NoCollision, statics |-> <<>>, cases |-> <<>>]

\* emit_generic_endpoint_spec_maps: the collision check, then the static
\* spec entries and the ordered dynamic cases.
EmitSpecMaps(fs) ==
    LET eps == CollectEndpoints(fs)
        IsDyn(e) == e.dynamic
        IsStatic(e) == ~e.dynamic
        dyn == SelectSeq(eps, IsDyn)
        col == TemplateCollision(SortedBy(dyn, Len(dyn), KeyLess), 1)
    IN  IF col.found
        THEN [done |-> TRUE, collision |-> col, statics |-> <<>>, cases |-> <<>>]
        ELSE [done |-> TRUE, collision |-> NoCollision,
              statics |-> SelectSeq(eps, IsStatic),
              cases |-> SortedBy(dyn, Len(dyn), DynamicSortKeyLess)]

\* Key extends Pattern for a template literal type: ${string} takes any
\* run of characters, the empty one included.
RECURSIVE TemplateMatches(_, _)
TemplateMatches(pat, key) ==
    IF pat = <<>> THEN key = <<>>
    ELSE IF Head(pat) = Wild
    THEN \E n \in 0..Len(key) : TemplateMatches(Tail(pat), SubSeq(key, n + 1, Len(key)))
    ELSE key # <<>> /\ Head(key) = Head(pat) /\ TemplateMatches(Tail(pat), Tail(key))

\* EndpointSpecFor<Key>: the static entry of that key, else the first dynamic
\* case whose pattern the key extends, else the default spec (source 0).
SpecSourceFor(out, key) ==
    IF \E i \in 1..Len(out.statics) : out.statics[i].key = key
    THEN out.statics[CHOOSE i \in 1..Len(out.statics) : out.statics[i].key = key].src
    ELSE LET hits == {i \in 1..Len(out.cases) : TemplateMatches(out.cases[i].template, key)}
         IN  IF hits = {} THEN 0
             ELSE out.cases[CHOOSE i \in hits : \A h \in hits : i <= h].src

GenStemsOf(fs) == [i \in 1..Len(fs) |-> fs[i].stem]
NoPick == [done |-> FALSE, runtime |-> 0, typed |-> 0]

GenInit ==
    /\ genFiles \in GenTrees
    /\ genPath \in GenPaths
    /\ genVerb \in GenVerbs
    /\ contract = NotGenerated
    /\ picked = NoPick

\* The generator run over the files of DirTrees.
DirInit ==
    /\ genFiles \in DirTrees
    /\ genPath = <<"a">>
    /\ genVerb = "get"
    /\ contract = NotGenerated
    /\ picked = NoPick

GenIdle ==
    /\ genFiles = <<>>
    /\ genPath = <<"a">>
    /\ genVerb = "get"
    /\ contract = NotGenerated
    /\ picked = NoPick

\* Pipeline.run: build_state collects the endpoints and records the source
\* file of each key, then the spec maps are emitted; the RuntimeError of
\* either collision check ends the generation.
Generate ==
    /\ ~contract.done
    /\ contract' =
          LET col == EndpointSourceFiles(CollectEndpoints(genFiles), 1, <<>>)
          IN  IF col.found
              THEN [done |-> TRUE, collision |-> col, statics |-> <<>>, cases |-> <<>>]
              ELSE EmitSpecMaps(genFiles)
    /\ UNCHANGED <<subVars, typeVars, routeVars, loadVars, refreshVars, runVars, dispatchVars, bindVars,
                   tokVars, indexVars, genFiles, genPath, genVerb, picked>>

\* The same request resolved twice: by the router, _match_route on the table
\* built from these files, and by the emitted types, EndpointSpecFor of the
\* request's key.
ResolveRequest ==
    /\ contract.done
    /\ ~contract.collision.found
    /\ ~picked.done
    /\ picked' = [done |-> TRUE,
                  runtime |-> MatchRoute(BuildRouteTable(GenStemsOf(genFiles)), genPath).file,
                  typed |-> SpecSourceFor(contract, ConcreteKeyText(genPath, genVerb))]
    /\ UNCHANGED <<subVars, typeVars, routeVars, loadVars, refreshVars, runVars, dispatchVars, bindVars,
                   tokVars, indexVars, genFiles, genPath, genVerb, contract>>

GenNext == Generate \/ ResolveRequest

DirNext == Generate

----------------------------------------------------------------------------
(* Annotation translation and the emitted contract file                    *)
(* src/src/orchestrator/gen_ts_types.py: PythonToTypeScriptTypeTranslator, *)
(* the method transformers of Pipeline.build_state and the state emitters  *)
(* of Pipeline.emit_typescript, for one route file note.py.                *)

\* most fields of one record, its own and its bases' together
MaxTypeFields == 1
\* most parameters after self in one method signature
MaxSigParams == 2
\* most type aliases of the route file
MaxAliases == 2

TypeRecords == {"Note", "Other"}
TypeAliases == {"NoteList"}
TypeNames == {"int"} \cup TypeRecords \cup TypeAliases

\* sorted() of the record names and of the alias names
TypeRecordOrder == <<"Note", "Other">>
TypeAliasOrder == <<"NoteList", "NotePage", "NoteRef">>
SortedNames(order, S) == SelectSeq(order, LAMBDA n : n \in S)

\* Annotation nodes: ast.Name, list[...] as ast.Subscript, the constant None,
\* and a missing annotation (function_node.returns is None).
NameNode(id) == [node |-> "name", id |-> id]
ListNode(id) == [node |-> "list", id |-> id]
NoneNode == [node |-> "none", id |-> ""]
NoAnnotation == [node |-> "absent", id |-> ""]

FieldAnnotations == {NameNode(n) : n \in TypeNames}
AliasBodies == {ListNode("Other"), NameNode("int")}
GetReturns == {NoAnnotation, NoneNode, NameNode("int"), NameNode("Note"),
               NameNode("NoteList"), ListNode("Note")}
PostReturns == {NameNode("Note"), NoneNode}
PostParams == {NameNode("int"), NameNode("Other"), NameNode("NoteList")}

FieldLists ==
    UNION {[1..n -> FieldAnnotations] : n \in 0..MaxTypeFields}

\* SymbolIndex: dataclasses_by_name (each record with the field annotations
\* collect_dataclass_fields_including_bases yields) and aliases_by_name.
TypeIndexes ==
    [dataclasses : [TypeRecords -> FieldLists],
     aliases : [TypeAliases -> AliasBodies]]

\* EndpointMetadata of the methods of class Endpoint in note.py; params are
\* the annotations of the parameters after self, query the positions of those
\* that the method's @params decorator names (each declared there as int).
GetMethods ==
    {[key |-> "note.get", verb |-> "get", returns |-> r, params |-> <<>>,
      query |-> {}] : r \in GetReturns}
PostMethods ==
    {[key |-> "note.post", verb |-> "post", returns |-> r, params |-> <<p>>,
      query |-> {}] : r \in PostReturns, p \in PostParams}
\* methods of one class, sorted by name
MethodLists ==
    {<<g>> : g \in GetMethods} \cup {<<p>> : p \in PostMethods}
        \cup {<<g, p>> : g \in GetMethods, p \in PostMethods}

\* The methods of one Endpoint class with up to MaxSigParams parameters after
\* self, any of them named by the @params decorator.
SigVerbOrder == <<"delete", "get", "post", "put">>
SigAnnotations == {NameNode("int"), NameNode("Other")}
\* f"{file_stem}.{effective_method_name}" for note.py
EndpointKey(verb) ==
    CASE verb = "delete" -> "note.delete"
      [] verb = "get" -> "note.get"
      [] verb = "post" -> "note.post"
      [] verb = "put" -> "note.put"
      [] OTHER -> "note.patch"
SigMethods(verb) ==
    UNION {{[key |-> EndpointKey(verb), verb |-> verb, returns |-> NoAnnotation, params |-> ps,
             query |-> q] : ps \in [1..n -> SigAnnotations], q \in SUBSET (1..n)} :
              n \in 0..MaxSigParams}
\* sorted(methods_by_name.items()): the method of verb i alone, or the
\* methods of verbs i and j in name order
SigMethodLists(i, j) ==
    IF i = j THEN {<<m>> : m \in SigMethods(SigVerbOrder[i])}
    ELSE {<<m, n>> : m \in SigMethods(SigVerbOrder[i]),
                     n \in SigMethods(SigVerbOrder[j])}

\* Alias tables of MaxAliases aliases, each defined as a name or a list of a
\* name, the name an alias (itself included), a record or a primitive.
CycAliases == {TypeAliasOrder[i] : i \in 1..MaxAliases}
CycBodies ==
    {NameNode(n) : n \in CycAliases \cup {"Other", "int"}}
        \cup {ListNode(n) : n \in CycAliases \cup {"Other", "int"}}
CycMethods ==
    {[key |-> "note.get", verb |-> "get", returns |-> r, params |-> <<>>,
      query |-> {}] : r \in {NameNode(a) : a \in CycAliases}
                             \cup {ListNode(a) : a \in CycAliases}}

\* config.body_methods
BodyMethods == {"post", "put", "patch"}

\* A TypeScript type text: a symbol followed by dims pairs of "[]".
TsSym(s) == [sym |-> s, dims |-> 0]
Plain(s, resolving) ==
    [ts |-> TsSym(s), dataclasses |-> {}, aliases |-> {}, resolving |-> resolving]

\* config.primitive_type_map.get(name, name)
PrimitiveTypeMap == [int |-> "number", str |-> "string"]
PrimitiveGet(name) ==
    IF name \in DOMAIN PrimitiveTypeMap THEN PrimitiveTypeMap[name] ELSE name

\* to_typescript_type: the type text, the names the call adds to the
\* referenced_dataclass_names and referenced_alias_names arguments, and the
\* resolving_alias_names set as the call leaves it.
RECURSIVE ToTypescriptType(_, _, _, _)
\* Mutant: an inlined alias stays in resolving_alias_names.
ToTypescriptTypeNoRemove(ann, index, preserve, resolving) ==
    CASE ann.node = "name" ->
            IF ann.id \in DOMAIN index.aliases
            THEN IF preserve
                 THEN [ts |-> TsSym(ann.id), dataclasses |-> {},
                       aliases |-> {ann.id}, resolving |-> resolving]
                 ELSE IF ann.id \in resolving THEN Plain("unknown", resolving)
                 ELSE ToTypescriptType(index.aliases[ann.id], index, FALSE,
                                       resolving \cup {ann.id})
            ELSE IF ann.id \in DOMAIN index.dataclasses
            THEN [ts |-> TsSym(ann.id), dataclasses |-> {ann.id},
                  aliases |-> {}, resolving |-> resolving]
            ELSE Plain(PrimitiveGet(ann.id), resolving)
      [] ann.node = "none" -> Plain("null", resolving)
      [] ann.node = "list" ->
            LET inner == ToTypescriptType(NameNode(ann.id), index, preserve,
                                          resolving)
            IN  [inner EXCEPT !.ts.dims = @ + 1]
      [] OTHER -> Plain("unknown", resolving)

ToTypescriptType(ann, index, preserve, resolving) ==
    CASE ann.node = "name" ->
            IF ann.id \in DOMAIN index.aliases
            THEN IF preserve
                 THEN [ts |-> TsSym(ann.id), dataclasses |-> {},
                       aliases |-> {ann.id}, resolving |-> resolving]
                 ELSE IF ann.id \in resolving THEN Plain("unknown", resolving)
                 ELSE LET inner == ToTypescriptType(index.aliases[ann.id], index,
                                                    FALSE, resolving \cup {ann.id})
                      IN  [inner EXCEPT !.resolving = @ \ {ann.id}]
            ELSE IF ann.id \in DOMAIN index.dataclasses
            THEN [ts |-> TsSym(ann.id), dataclasses |-> {ann.id},
                  aliases |-> {}, resolving |-> resolving]
            ELSE Plain(PrimitiveGet(ann.id), resolving)
      [] ann.node = "none" -> Plain("null", resolving)
      [] ann.node = "list" ->
            LET inner == ToTypescriptType(NameNode(ann.id), index, preserve,
                                          resolving)
            IN  [inner EXCEPT !.ts.dims = @ + 1]
      [] OTHER -> Plain("unknown", resolving)

\* GeneratorState, the fields the translation and emission use
NewState ==
    [referenced_dataclass_names |-> {},
     referenced_alias_names |-> {},
     emitted_dataclass_names |-> {},
     endpoint_response_types |-> <<>>,
     endpoint_body_types |-> <<>>,
     body_parameter_interfaces |-> <<>>,
     endpoint_query_types |-> <<>>,
     query_parameter_interfaces |-> <<>>]

\* A translation with the state's referenced sets as its arguments.
Marked(st, t) ==
    [st EXCEPT !.referenced_dataclass_names = @ \cup t.dataclasses,
               !.referenced_alias_names = @ \cup t.aliases]

RECURSIVE MarkAll(_, _, _)
MarkAll(st, anns, index) ==
    IF anns = <<>> THEN st
    ELSE MarkAll(Marked(st, ToTypescriptType(Head(anns), index, TRUE, {})),
                 Tail(anns), index)

\* to_pascal_case(file_stem) + to_pascal_case(method_name) + "Body"; the
\* keys of one file are distinct, so reserve_export_name returns it as is.
BodyExportName(m) ==
    CASE m.verb = "post" -> "NotePostBody"
      [] m.verb = "put" -> "NotePutBody"
      [] m.verb = "patch" -> "NotePatchBody"
      [] m.verb = "delete" -> "NoteDeleteBody"
      [] OTHER -> "NoteGetBody"

\* the same with "Query"
QueryExportName(m) ==
    CASE m.verb = "post" -> "NotePostQuery"
      [] m.verb = "put" -> "NotePutQuery"
      [] m.verb = "patch" -> "NotePatchQuery"
      [] m.verb = "delete" -> "NoteDeleteQuery"
      [] OTHER -> "NoteGetQuery"

\* sorted(...) of the export names
BodyExportOrder == <<"NotePatchBody", "NotePostBody", "NotePutBody">>
QueryExportOrder ==
    <<"NoteDeleteQuery", "NoteGetQuery", "NotePatchQuery", "NotePostQuery",
      "NotePutQuery">>

\* transform_collect_endpoint_query_params_from_decorator: nothing when the
\* decorator names no parameter; the declared types are primitives, so the
\* translation marks nothing.
CollectEndpointQueryParams(m, st) ==
    IF m.query = {} THEN st
    ELSE [st EXCEPT
            !.query_parameter_interfaces = DictPut(@, QueryExportName(m), m.query),
            !.endpoint_query_types = DictPut(@, m.key, QueryExportName(m))]

\* transform_set_query_params_default_never
SetQueryParamsDefaultNever(m, st) ==
    IF m.key \in DOMAIN st.endpoint_query_types THEN st
    ELSE [st EXCEPT !.endpoint_query_types = DictPut(@, m.key, "never")]

\* get_query_param_names_for_endpoint
GetQueryParamNames(st, key) ==
    IF key \notin DOMAIN st.endpoint_query_types THEN {}
    ELSE IF st.endpoint_query_types[key] \notin DOMAIN st.query_parameter_interfaces
    THEN {}
    ELSE st.query_parameter_interfaces[st.endpoint_query_types[key]]

\* [p for p in signature_parameters if p[0] not in query_param_names], from
\* position i on
RECURSIVE NotQueryParams(_, _, _)
NotQueryParams(params, names, i) ==
    IF i > Len(params) THEN <<>>
    ELSE (IF i \in names THEN <<>> ELSE <<params[i]>>)
             \o NotQueryParams(params, names, i + 1)

\* Mutant: every method gets a parameter interface.
CollectEndpointBodyParamsEveryVerb(m, st, index) ==
    LET body == NotQueryParams(m.params, GetQueryParamNames(st, m.key), 1)
        export == BodyExportName(m)
        st1 == [st EXCEPT
                  !.body_parameter_interfaces = DictPut(@, export, body),
                  !.endpoint_body_types = DictPut(@, m.key, export)]
    IN  MarkAll(st1, body, index)

\* transform_collect_endpoint_body_params_from_signature
CollectEndpointBodyParams(m, st, index) ==
    LET body == NotQueryParams(m.params, GetQueryParamNames(st, m.key), 1)
    IN  IF m.verb \in BodyMethods
        THEN LET export == BodyExportName(m)
                 st1 == [st EXCEPT
                           !.body_parameter_interfaces = DictPut(@, export, body),
                           !.endpoint_body_types = DictPut(@, m.key, export)]
             IN  MarkAll(st1, body, index)
        ELSE [st EXCEPT !.endpoint_body_types = DictPut(@, m.key, "never")]

\* transform_collect_endpoint_response_types
CollectEndpointResponseTypes(m, st, index) ==
    IF m.verb \in BodyMethods
    THEN LET body == IF m.key \in DOMAIN st.endpoint_body_types
                     THEN st.endpoint_body_types[m.key] ELSE "never"
         IN  [st EXCEPT !.endpoint_response_types = DictPut(@, m.key, TsSym(body))]
    ELSE IF m.returns = NoAnnotation
    THEN [st EXCEPT !.endpoint_response_types = DictPut(@, m.key, TsSym("unknown"))]
    ELSE IF m.returns.node = "name" /\ m.returns.id \in DOMAIN index.dataclasses
    THEN [st EXCEPT
            !.referenced_dataclass_names = @ \cup {m.returns.id},
            !.endpoint_response_types = DictPut(@, m.key, TsSym(m.returns.id))]
    ELSE LET t == ToTypescriptType(m.returns, index, TRUE, {})
             ts == IF t.ts = TsSym("null") THEN TsSym("void") ELSE t.ts
         IN  [Marked(st, t) EXCEPT
                !.endpoint_response_types = DictPut(@, m.key, ts)]

\* The method decorator transformer, then the method transformers in
\* registry order, for one endpoint.
TransformEndpoint(m, st, index) ==
    LET st1 == SetQueryParamsDefaultNever(m, CollectEndpointQueryParams(m, st))
    IN  CollectEndpointResponseTypes(m, CollectEndpointBodyParams(m, st1, index),
                                     index)

NoLines == <<>>

\* emit_dataclass_interface_lines: the state after the call and the lines
\* it returns, dependencies first.
RECURSIVE EmitDataclassInterfaceLines(_, _, _)
RECURSIVE EmitEachDataclass(_, _, _)
\* Mutant: the interface alone, the records its fields name left to the
\* caller.
EmitDataclassInterfaceLinesNoDependencies(st, name, index) ==
    IF name \in st.emitted_dataclass_names
    THEN [state |-> st, lines |-> NoLines]
    ELSE IF name \notin DOMAIN index.dataclasses
    THEN [state |-> st, lines |-> NoLines]
    ELSE LET st1 == [st EXCEPT !.emitted_dataclass_names = @ \cup {name}]
             defs == index.dataclasses[name]
             line == [decl |-> "record", name |-> name,
                      types |-> [i \in DOMAIN defs |->
                                   ToTypescriptType(defs[i], index, TRUE, {}).ts]]
         IN  [state |-> MarkAll(st1, defs, index), lines |-> <<line>>]

EmitDataclassInterfaceLines(st, name, index) ==
    IF name \in st.emitted_dataclass_names
    THEN [state |-> st, lines |-> NoLines]
    ELSE IF name \notin DOMAIN index.dataclasses
    THEN [state |-> st, lines |-> NoLines]
    ELSE LET st1 == [st EXCEPT !.emitted_dataclass_names = @ \cup {name}]
             defs == index.dataclasses[name]
             deps == UNION {ToTypescriptType(defs[i], index, TRUE, {}).dataclasses :
                              i \in DOMAIN defs}
             below == EmitEachDataclass(st1, SortedNames(TypeRecordOrder, deps), index)
             st2 == MarkAll(below.state, defs, index)
             line == [decl |-> "record", name |-> name,
                      types |-> [i \in DOMAIN defs |->
                                   ToTypescriptType(defs[i], index, TRUE, {}).ts]]
         IN  [state |-> st2, lines |-> Append(below.lines, line)]

EmitEachDataclass(st, names, index) ==
    IF names = <<>> THEN [state |-> st, lines |-> NoLines]
    ELSE LET first == EmitDataclassInterfaceLines(st, Head(names), index)
             rest == EmitEachDataclass(first.state, Tail(names), index)
         IN  [state |-> rest.state, lines |-> first.lines \o rest.lines]

\* emit_referenced_dataclasses_section
EmitReferencedDataclassesSection(st, index) ==
    EmitEachDataclass(st, SortedNames(TypeRecordOrder, st.referenced_dataclass_names),
                      index)

\* emit_referenced_aliases_section
RECURSIVE EmitEachAlias(_, _, _)
EmitEachAlias(st, names, index) ==
    IF names = <<>> THEN [state |-> st, lines |-> NoLines]
    ELSE LET t == ToTypescriptType(index.aliases[Head(names)], index, FALSE, {})
             rest == EmitEachAlias(Marked(st, t), Tail(names), index)
             line == [decl |-> "alias", name |-> Head(names), types |-> <<t.ts>>]
         IN  [state |-> rest.state, lines |-> <<line>> \o rest.lines]

EmitReferencedAliasesSection(st, index) ==
    EmitEachAlias(st, SortedNames(TypeAliasOrder, st.referenced_alias_names), index)

\* emit_body_param_interfaces_section, over the export names in names
RECURSIVE EmitEachBodyInterface(_, _, _)
EmitEachBodyInterface(st, names, index) ==
    IF names = <<>> THEN [state |-> st, lines |-> NoLines]
    ELSE LET ps == st.body_parameter_interfaces[Head(names)]
             rest == EmitEachBodyInterface(MarkAll(st, ps, index), Tail(names), index)
             line == [decl |-> "params", name |-> Head(names),
                      types |-> [i \in DOMAIN ps |->
                                   ToTypescriptType(ps[i], index, TRUE, {}).ts]]
         IN  [state |-> rest.state, lines |-> <<line>> \o rest.lines]

EmitBodyParamInterfacesSection(st, index) ==
    EmitEachBodyInterface(
        st, SortedNames(BodyExportOrder, DOMAIN st.body_parameter_interfaces), index)

\* emit_query_param_interfaces_section: one interface per export name, each
\* declared parameter a number
EmitQueryParamInterfacesSection(st) ==
    LET names == SortedNames(QueryExportOrder, DOMAIN st.query_parameter_interfaces)
    IN  [n \in DOMAIN names |->
            [decl |-> "query", name |-> names[n],
             types |-> [i \in 1..Cardinality(st.query_parameter_interfaces[names[n]])
                          |-> TsSym("number")]]]

\* typescript_body_type_for, include_never_for_non_body = True
TypescriptBodyTypeFor(st, key) ==
    IF key \in DOMAIN st.endpoint_body_types THEN st.endpoint_body_types[key]
    ELSE "never"

\* typescript_query_type_for, emit_query_params = True
TypescriptQueryTypeFor(st, key) ==
    IF key \in DOMAIN st.endpoint_query_types THEN st.endpoint_query_types[key]
    ELSE "never"

\* emit_generic_endpoint_spec_maps: the response, body and query entries of
\* each static key
EmitSpecEntries(st, methods) ==
    [i \in DOMAIN methods |->
        [decl |-> "spec", name |-> methods[i].key,
         types |-> <<IF methods[i].key \in DOMAIN st.endpoint_response_types
                     THEN st.endpoint_response_types[methods[i].key]
                     ELSE TsSym("unknown")>>,
         body |-> TypescriptBodyTypeFor(st, methods[i].key),
         query |-> TypescriptQueryTypeFor(st, methods[i].key)]]

TypeInit ==
    /\ typeIndex \in TypeIndexes
    /\ typeMethods \in MethodLists
    /\ typePos = 0
    /\ typePhase = "build"
    /\ typeState = NewState
    /\ typeOutput = NoLines
    /\ typeRuns = 1
    /\ typeFirst = NoLines

\* The same pipeline over one or two methods of SigMethods; Other is a record
\* without fields, Note holds one.
SigInit ==
    /\ typeIndex = [dataclasses |-> [Note |-> <<NameNode("Other")>>, Other |-> <<>>],
                    aliases |-> [NoteList |-> ListNode("Other")]]
    /\ \E i \in DOMAIN SigVerbOrder :
          \E j \in i..Len(SigVerbOrder) : typeMethods \in SigMethodLists(i, j)
    /\ typePos = 0
    /\ typePhase = "build"
    /\ typeState = NewState
    /\ typeOutput = NoLines
    /\ typeRuns = 1
    /\ typeFirst = NoLines

\* The same pipeline over the alias tables of CycBodies, one get method
\* returning an alias or a list of one.
CycInit ==
    /\ typeIndex \in [dataclasses : {[Note |-> <<>>, Other |-> <<>>]},
                       aliases : [CycAliases -> CycBodies]]
    /\ typeMethods \in {<<m>> : m \in CycMethods}
    /\ typePos = 0
    /\ typePhase = "build"
    /\ typeState = NewState
    /\ typeOutput = NoLines
    /\ typeRuns = 1
    /\ typeFirst = NoLines

TypeIdle ==
    /\ typeIndex = [dataclasses |-> <<>>, aliases |-> <<>>]
    /\ typeMethods = <<>>
    /\ typePos = 0
    /\ typePhase = "idle"
    /\ typeState = NewState
    /\ typeOutput = NoLines
    /\ typeRuns = 1
    /\ typeFirst = NoLines

\* Pipeline.build_state, one endpoint of endpoint_metadata_list per step
BuildState ==
    /\ typePhase = "build"
    /\ typePos < Len(typeMethods)
    /\ typeState' = TransformEndpoint(typeMethods[typePos + 1], typeState, typeIndex)
    /\ typePos' = typePos + 1
    /\ typePhase' = IF typePos + 1 = Len(typeMethods) THEN "dataclasses" ELSE "build"
    /\ UNCHANGED <<subVars, routeVars, loadVars, refreshVars, runVars, dispatchVars, bindVars,
                   tokVars, indexVars, genVars, typeRuns, typeFirst, typeIndex, typeMethods, typeOutput>>

\* Pipeline.emit_typescript, one state emitter per step, in registry order
EmitDataclasses ==
    /\ typePhase = "dataclasses"
    /\ LET r == EmitReferencedDataclassesSection(typeState, typeIndex)
       IN  /\ typeState' = r.state
           /\ typeOutput' = typeOutput \o r.lines
    /\ typePhase' = "aliases"
    /\ UNCHANGED <<subVars, routeVars, loadVars, refreshVars, runVars, dispatchVars, bindVars,
                   tokVars, indexVars, genVars, typeRuns, typeFirst, typeIndex, typeMethods, typePos>>

EmitAliases ==
    /\ typePhase = "aliases"
    /\ LET r == EmitReferencedAliasesSection(typeState, typeIndex)
       IN  /\ typeState' = r.state
           /\ typeOutput' = typeOutput \o r.lines
    /\ typePhase' = "bodies"
    /\ UNCHANGED <<subVars, routeVars, loadVars, refreshVars, runVars, dispatchVars, bindVars,
                   tokVars, indexVars, genVars, typeRuns, typeFirst, typeIndex, typeMethods, typePos>>

EmitBodies ==
    /\ typePhase = "bodies"
    /\ LET r == EmitBodyParamInterfacesSection(typeState, typeIndex)
       IN  /\ typeState' = r.state
           /\ typeOutput' = typeOutput \o r.lines
    /\ typePhase' = "queries"
    /\ UNCHANGED <<subVars, routeVars, loadVars, refreshVars, runVars, dispatchVars, bindVars,
                   tokVars, indexVars, genVars, typeRuns, typeFirst, typeIndex, typeMethods, typePos>>

EmitQueries ==
    /\ typePhase = "queries"
    /\ typeOutput' = typeOutput \o EmitQueryParamInterfacesSection(typeState)
    /\ typePhase' = "maps"
    /\ UNCHANGED <<subVars, routeVars, loadVars, refreshVars, runVars, dispatchVars, bindVars,
                   tokVars, indexVars, genVars, typeRuns, typeFirst, typeIndex, typeMethods, typePos,
                   typeState>>

EmitMaps ==
    /\ typePhase = "maps"
    /\ typeOutput' = typeOutput \o EmitSpecEntries(typeState, typeMethods)
    /\ typePhase' = "done"
    /\ UNCHANGED <<subVars, routeVars, loadVars, refreshVars, runVars, dispatchVars, bindVars,
                   tokVars, indexVars, genVars, typeRuns, typeFirst, typeIndex, typeMethods, typePos,
                   typeState>>

\* Mutant: the second run works on the GeneratorState of the first.
RunAgainSameState ==
    /\ typePhase = "done"
    /\ typeRuns = 1
    /\ typeRuns' = 2
    /\ typeFirst' = typeOutput
    /\ typeState' = typeState
    /\ typePos' = 0
    /\ typePhase' = "build"
    /\ typeOutput' = NoLines
    /\ UNCHANGED <<routeVars, loadVars, refreshVars, runVars, dispatchVars, bindVars,
                   tokVars, indexVars, genVars, subVars, typeIndex, typeMethods>>

\* Pipeline.run called again on the same files: build_state makes a new
\* GeneratorState and a new translator, emit_typescript a new list of lines.
RunAgain ==
    /\ typePhase = "done"
    /\ typeRuns = 1
    /\ typeRuns' = 2
    /\ typeFirst' = typeOutput
    /\ typeState' = NewState
    /\ typePos' = 0
    /\ typePhase' = "build"
    /\ typeOutput' = NoLines
    /\ UNCHANGED <<routeVars, loadVars, refreshVars, runVars, dispatchVars, bindVars,
                   tokVars, indexVars, genVars, subVars, typeIndex, typeMethods>>

TypeNext ==
    BuildState \/ EmitDataclasses \/ EmitAliases \/ EmitBodies \/ EmitQueries
        \/ EmitMaps

TypeTwiceNext == TypeNext \/ RunAgain

----------------------------------------------------------------------------
(* Generic templates: load_type_mapping reading the generic lines of the    *)
(* mapping file, and the ast.Subscript branch of to_typescript_type for one *)
(* annotation whose arguments are already translated.  A template is named  *)
(* by the line that registers it; rendering it fills its placeholders with  *)
(* the argument types.                                                      *)

\* most lines of the mapping file
MaxMapLines == 2
\* most parameters of a template line and most arguments of an annotation
MaxTypeArgs == 2

\* base names written in the mapping file and in annotations
TemplateBases == {"List", "list", "Page"}
WrittenBases == {"List", "list", "Page", "Dict"}
ArgTypes == {"number", "boolean"}

\* a line `Base<P1,...,Pn>: template`; n = 0 is the line `Base<>: template`
MapLine(base, n) == [base |-> base, params |-> n, template |-> <<base, n>>]
MapLinesOf(len) ==
    [1..len -> {MapLine(b, n) : b \in TemplateBases, n \in 0..MaxTypeArgs}]
SubNodesOf(len) == [base : WrittenBases, args : [1..len -> ArgTypes]]

\* config.typing_container_aliases.get(name, name)
TypingContainerAliases ==
    [List |-> "list", Sequence |-> "list", Iterable |-> "list", Set |-> "set",
     Dict |-> "dict", Mapping |-> "dict", Optional |-> "optional",
     Union |-> "union", Tuple |-> "tuple"]
ContainerAliasGet(name) ==
    IF name \in DOMAIN TypingContainerAliases THEN TypingContainerAliases[name]
    ELSE name

\* load_type_mapping: generic_mapping[base_name] = (params, value) for each
\* line with at least one parameter, a later line replacing an earlier one
RECURSIVE LoadGenericLines(_, _)
LoadGenericLines(lines, mapping) ==
    IF lines = <<>> THEN mapping
    ELSE LET line == Head(lines)
         IN  IF line.params = 0
             THEN LoadGenericLines(Tail(lines), mapping)
             ELSE LoadGenericLines(
                      Tail(lines),
                      DictPut(mapping, line.base,
                              [params |-> line.params, template |-> line.template]))

\* the template with its placeholders replaced by the argument types
Rendered(template, args) == [form |-> "template", of |-> template, args |-> args]

\* the built-in rules and the name<args> fallback
BuiltinSubscript(base, args) ==
    CASE base \in {"list", "set", "Sequence", "Iterable"} ->
             [form |-> "array", of |-> <<>>, args |-> <<args[1]>>]
      [] base = "dict" ->
             [form |-> "record", of |-> <<>>,
              args |-> <<IF args[1] \in {"string", "number"} THEN args[1] ELSE "string",
                         IF Len(args) > 1 THEN args[2] ELSE "unknown">>]
      [] base = "tuple" -> [form |-> "tuple", of |-> <<>>, args |-> args]
      [] base = "optional" -> [form |-> "nullable", of |-> <<>>, args |-> <<args[1]>>]
      [] base = "union" -> [form |-> "union", of |-> <<>>, args |-> args]
      [] OTHER -> [form |-> "generic", of |-> <<base>>, args |-> args]

\* to_typescript_type, isinstance(annotation_node, ast.Subscript)
TranslateSubscript(node, mapping) ==
    LET base == ContainerAliasGet(node.base)
    IN  IF base \in DOMAIN mapping /\ Len(node.args) = mapping[base].params
        THEN Rendered(mapping[base].template, node.args)
        ELSE BuiltinSubscript(base, node.args)

NoSubResult == [form |-> "none", of |-> <<>>, args |-> <<>>]

SubInit ==
    /\ \E n \in 0..MaxMapLines : mapLines \in MapLinesOf(n)
    /\ \E n \in 1..MaxTypeArgs : subNode \in SubNodesOf(n)
    /\ genericTypeMap = <<>>
    /\ subResult = NoSubResult
    /\ subPc = "load"

SubIdle ==
    /\ mapLines = <<>>
    /\ subNode = [base |-> "", args |-> <<>>]
    /\ genericTypeMap = <<>>
    /\ subResult = NoSubResult
    /\ subPc = "idle"

\* main: type_mapping_overrides, generic_type_overrides = load_type_mapping(...)
LoadTypeMapping ==
    /\ subPc = "load"
    /\ genericTypeMap' = LoadGenericLines(mapLines, <<>>)
    /\ subPc' = "translate"
    /\ UNCHANGED <<routeVars, loadVars, refreshVars, runVars, dispatchVars, bindVars,
                   tokVars, indexVars, genVars, typeVars, mapLines, subNode, subResult>>

\* one call of to_typescript_type on the annotation
TranslateAnnotation ==
    /\ subPc = "translate"
    /\ subResult' = TranslateSubscript(subNode, genericTypeMap)
    /\ subPc' = "done"
    /\ UNCHANGED <<routeVars, loadVars, refreshVars, runVars, dispatchVars, bindVars,
                   tokVars, indexVars, genVars, typeVars, mapLines, subNode,
                   genericTypeMap>>

SubNext == LoadTypeMapping \/ TranslateAnnotation

----------------------------------------------------------------------------
(* Specifications *)

InitRoute == RouteInit /\ LoadIdle /\ RefreshIdle /\ RunIdle /\ DispatchIdle /\ BindIdle /\ TokIdle /\ IndexIdle /\ GenIdle /\ TypeIdle /\ SubIdle
SpecRoute == InitRoute /\ [][RouteNext]_vars

InitLoad == RouteIdle /\ LoadInit /\ RefreshIdle /\ RunIdle /\ DispatchIdle /\ BindIdle /\ TokIdle /\ IndexIdle /\ GenIdle /\ TypeIdle /\ SubIdle
SpecLoad == InitLoad /\ [][LoadNext]_vars

SpecLoadSeq == InitLoad /\ [][LoadSeqNext]_vars

InitRefresh == RouteIdle /\ LoadIdle /\ RefreshInit /\ RunIdle /\ DispatchIdle /\ BindIdle /\ TokIdle /\ IndexIdle /\ GenIdle /\ TypeIdle /\ SubIdle
SpecRefresh == InitRefresh /\ [][RefreshNext]_vars

SpecRefreshSeq == InitRefresh /\ [][RefreshSeqNext]_vars

InitRun == RouteIdle /\ LoadIdle /\ RefreshIdle /\ RunInit /\ DispatchIdle /\ BindIdle /\ TokIdle /\ IndexIdle /\ GenIdle /\ TypeIdle /\ SubIdle
SpecRun == InitRun /\ [][RunNext]_vars

InitDispatch == DispatchRouteInit /\ LoadInit /\ RefreshIdle /\ DispatchRunInit /\ DispatchInit /\ BindIdle /\ TokIdle /\ IndexIdle /\ GenIdle /\ TypeIdle /\ SubIdle
SpecDispatch == InitDispatch /\ [][DispatchNext]_vars

InitBind == RouteIdle /\ LoadIdle /\ RefreshIdle /\ RunIdle /\ DispatchIdle /\ BindInit /\ TokIdle /\ IndexIdle /\ GenIdle /\ TypeIdle /\ SubIdle
SpecBind == InitBind /\ [][BindNext]_vars

InitSig == RouteIdle /\ LoadIdle /\ RefreshIdle /\ RunIdle /\ DispatchIdle /\ BindIdle /\ TokIdle /\ IndexIdle /\ GenIdle /\ SigInit /\ SubIdle
SpecSig == InitSig /\ [][TypeNext]_vars

InitSub == RouteIdle /\ LoadIdle /\ RefreshIdle /\ RunIdle /\ DispatchIdle /\ BindIdle /\ TokIdle /\ IndexIdle /\ GenIdle /\ TypeIdle /\ SubInit
SpecSub == InitSub /\ [][SubNext]_vars

InitCyc == RouteIdle /\ LoadIdle /\ RefreshIdle /\ RunIdle /\ DispatchIdle /\ BindIdle /\ TokIdle /\ IndexIdle /\ GenIdle /\ CycInit /\ SubIdle
SpecCyc == InitCyc /\ [][TypeNext]_vars

InitDir == RouteIdle /\ LoadIdle /\ RefreshIdle /\ RunIdle /\ DispatchIdle /\ BindIdle /\ TokIdle /\ IndexIdle /\ DirInit /\ TypeIdle /\ SubIdle
SpecDir == InitDir /\ [][DirNext]_vars

InitTok == RouteIdle /\ LoadIdle /\ RefreshIdle /\ RunIdle /\ DispatchIdle /\ BindIdle /\ TokInit /\ IndexIdle /\ GenIdle /\ TypeIdle /\ SubIdle
SpecTok == InitTok /\ [][TokNext]_vars

InitIndex == RouteIdle /\ LoadIdle /\ RefreshIdle /\ RunIdle /\ DispatchIdle /\ BindIdle /\ TokIdle /\ IndexInit /\ GenIdle /\ TypeIdle /\ SubIdle
SpecIndex == InitIndex /\ [][IndexNext]_vars

InitGen == RouteIdle /\ LoadIdle /\ RefreshIdle /\ RunIdle /\ DispatchIdle /\ BindIdle /\ TokIdle /\ IndexIdle /\ GenInit /\ TypeIdle /\ SubIdle
SpecGen == InitGen /\ [][GenNext]_vars

InitType == RouteIdle /\ LoadIdle /\ RefreshIdle /\ RunIdle /\ DispatchIdle /\ BindIdle /\ TokIdle /\ IndexIdle /\ GenIdle /\ TypeInit /\ SubIdle
SpecType == InitType /\ [][TypeNext]_vars

SpecTwice == InitType /\ [][TypeTwiceNext]_vars

----------------------------------------------------------------------------
(* Properties of the route table and the matcher (SpecRoute)               *)

\* What it means for a table entry to match a segment list, stated without
\* the matcher: as many tokens as segments, every static token equal to the
\* segment at its position.
EntryMatches(r, segments) ==
    /\ Len(r.tokens) = Len(segments)
    /\ \A i \in 1..Len(r.tokens) :
        r.tokens[i].kind = "static" => r.tokens[i].val = segments[i]

\* The table entry _match_route returned (entries are told apart by file).
MatchedEntry == routes[CHOOSE i \in 1..Len(routes) : routes[i].file = matched.file]

SameShape(t1, t2) ==
    /\ Len(t1) = Len(t2)
    /\ \A i \in 1..Len(t1) :
        /\ t1[i].kind = t2[i].kind
        /\ t1[i].kind = "static" => t1[i].val = t2[i].val

ParamPositions(tokens, name) ==
    {i \in 1..Len(tokens) : tokens[i].kind = "param" /\ tokens[i].val = name}

ParamNamesOf(tokens) == {tokens[i].val : i \in {j \in 1..Len(tokens) : tokens[j].kind = "param"}}

SetMax(S) == CHOOSE m \in S : \A n \in S : n <= m

\* C1: for every built table and every request path, _match_route returns a
\* matching entry with the fewest Param tokens among all entries that match;
\* when a fully static entry matches, a fully static entry is returned,
\* whatever the discovery order of the files.
C1_FewestParams ==
    served =>
        \A i \in 1..Len(routes) :
            EntryMatches(routes[i], req) =>
                /\ matched.found
                /\ EntryMatches(MatchedEntry, req)
                /\ MatchedEntry.param_count <= routes[i].param_count
                /\ routes[i].param_count = 0 => MatchedEntry.tokens = routes[i].tokens

\* C1 witness: a dynamic file discovered before a static file, both matching
\* the request, and the request served.
C1_Witness ==
    /\ served
    /\ matched.found
    /\ \E i, j \in 1..Len(routes) :
        /\ EntryMatches(routes[i], req) /\ EntryMatches(routes[j], req)
        /\ routes[i].param_count = 0 /\ routes[j].param_count > 0
        /\ routes[j].file < routes[i].file

\* C2 (as claimed): no built table contains two entries whose token shapes
\* are identical once parameter names are ignored; such a tree is rejected.
C2_CollisionRejected ==
    built =>
        ~ \E i, j \in 1..Len(routes) :
            i # j /\ SameShape(routes[i].tokens, routes[j].tokens)

\* C9 (as claimed): _match_route finds an entry iff some entry qualifies, and
\* the params map binds the name of every Param token to the segment at that
\* token's position.
C9_ParamsAtOwnPosition ==
    served =>
        /\ matched.found <=> \E i \in 1..Len(routes) : EntryMatches(routes[i], req)
        /\ matched.found =>
            /\ EntryMatches(MatchedEntry, req)
            /\ \A i \in 1..Len(MatchedEntry.tokens) :
                MatchedEntry.tokens[i].kind = "param" =>
                    /\ DictHas(matched.params, MatchedEntry.tokens[i].val)
                    /\ DictGet(matched.params, MatchedEntry.tokens[i].val) = req[i]

\* C9 (amended): _match_route finds an entry iff some entry qualifies; the
\* entry returned qualifies; the params map has exactly the entry's Param
\* names as keys and binds each name to the segment at the position of the
\* last Param token carrying that name; otherwise the result is no match.
C9_ParamsAtLastPosition ==
    served =>
        /\ matched.found <=> \E i \in 1..Len(routes) : EntryMatches(routes[i], req)
        /\ ~matched.found => matched = NoMatch
        /\ matched.found =>
            /\ EntryMatches(MatchedEntry, req)
            /\ {matched.params[i].k : i \in 1..Len(matched.params)}
                   = ParamNamesOf(MatchedEntry.tokens)
            /\ \A name \in ParamNamesOf(MatchedEntry.tokens) :
                DictGet(matched.params, name)
                    = req[SetMax(ParamPositions(MatchedEntry.tokens, name))]

\* C9 witness: the entry returned carries one parameter name twice, over two
\* different segments.
C9_Witness ==
    /\ served
    /\ matched.found
    /\ \E name \in ParamNamesOf(MatchedEntry.tokens) :
        \E i, j \in ParamPositions(MatchedEntry.tokens, name) : i < j /\ req[i] # req[j]

----------------------------------------------------------------------------
(* Properties of the module loader (SpecLoad, SpecLoadSeq)                  *)

\* C3 (as claimed): a dispatch during which the file does not change, and
\* which returns a handler class, returns the class defined by the file's
\* current content; in particular after a successful dispatch followed by an
\* edit of content and mtime.
C3_ReloadAfterEdit ==
    \A t \in Threads :
        (pc[t] = "done" /\ res[t].kind = "cls" /\ startVer[t] = fileVer)
            => mods[res[t].mod].ver = fileVer

\* C5: under any interleaving of the threads, a module that
\* _load_module_from_file has returned, and any module a dispatch ends with,
\* was executed to completion without raising.
C5_NoMidImportReturned ==
    \A t \in Threads :
        /\ pc[t] \in {"loaded", "store"} => mods[lmod[t]].exec = "done"
        /\ (pc[t] = "done" /\ res[t].kind \in {"cls", "error500"})
               => mods[res[t].mod].exec = "done"

\* C5 witness: a thread found another thread's module in sys.modules before
\* that module was executed, loaded its own, and has returned while the
\* other module is still waiting to be executed.
C5_Witness ==
    \E t, u \in Threads :
        /\ t # u
        /\ pc[t] = "loaded"
        /\ pc[u] = "exec"
        /\ lcached[t] = lmod[u]
        /\ lmod[t] # lcached[t]

\* C6: when executing the module raises, the dispatch ends in that failure,
\* with no entry in sys.modules and no class cached; and the dispatch that
\* follows a failed one executes the file again in a module of its own.
C6_FailurePurged ==
    \A t \in Threads :
        /\ (pc[t] = "done" /\ execd[t] /\ mods[lmod[t]].exec = "failed")
               => /\ res[t].kind = "loadfail"
                  /\ sysModules = 0
                  /\ endpointCache = 0
        /\ (pc[t] = "done" /\ lastRes = "loadfail")
               => /\ execd[t]
                  /\ res[t].mod = lmod[t]
                  /\ res[t].kind = "loadfail" <=> mods[lmod[t]].exec = "failed"

\* C6 witness: a load failed, the file was repaired, and the next dispatch
\* ended with the class of a fresh load.
C6_Witness ==
    \E t \in Threads :
        /\ pc[t] = "done"
        /\ lastRes = "loadfail"
        /\ res[t].kind = "cls"

\* C8: a dispatch that starts after a successful load, the file's mtime not
\* having changed since that load read it, does not execute the file and
\* ends with that same module.
C8_LoadedOnce ==
    \A t \in Threads :
        (pc[t] = "done" /\ startGood[t] # 0 /\ startVer[t] = fileVer)
            => /\ ~execd[t]
               /\ res[t].kind \in {"cls", "error500"}
               /\ res[t].mod = startGood[t]

\* C8 witness: the third dispatch in a row served from the module loaded by
\* the first.
C8_Witness ==
    \E t \in Threads :
        /\ pc[t] = "done"
        /\ dispatches = 3
        /\ Len(mods) = 1
        /\ startGood[t] = 1
        /\ goodMod = 1

\* C26 (as claimed): the cleanup of a thread whose load failed leaves
\* sys.modules alone when the entry is the module of another thread that
\* was executed to completion and carries both load marks.
C26_CleanupRemovesOwnOnly ==
    [][\A t \in Threads :
          (/\ PopFailed(t)
           /\ sysModules # 0
           /\ sysModules # lmod[t]
           /\ mods[sysModules].exec = "done"
           /\ mods[sysModules].loaded_ok
           /\ mods[sysModules].file_mtime # None)
              => sysModules' = sysModules]_vars

\* C23: a dispatch whose module was executed and holds no Endpoint class
\* ends in the 500 error with no class cached for the file; and a dispatch
\* that follows a 500 answer, the file unchanged since the module was loaded,
\* ends in the same error from the same module.
C23_MissingClassIs500 ==
    \A t \in Threads :
        /\ (pc[t] = "done" /\ lmod[t] # 0 /\ mods[lmod[t]].exec = "done"
                /\ ~mods[lmod[t]].hasClass)
               => /\ res[t] = [kind |-> "error500", mod |-> lmod[t]]
                  /\ endpointCache = 0
        /\ (pc[t] = "done" /\ lastRes = "error500" /\ startGood[t] # 0
                /\ startVer[t] = fileVer)
               => /\ res[t] = [kind |-> "error500", mod |-> startGood[t]]
                  /\ endpointCache = 0

\* C23 witness: the third dispatch in a row answered 500 from the one module
\* without an Endpoint class, nothing cached.
C23_Witness ==
    \E t \in Threads :
        /\ pc[t] = "done"
        /\ dispatches = 3
        /\ lastRes = "error500"
        /\ res[t].kind = "error500"
        /\ Len(mods) = 1
        /\ ~execd[t]
        /\ endpointCache = 0

----------------------------------------------------------------------------
(* Properties of the route refresh (SpecRefresh, SpecRefreshSeq)            *)

\* C4 (as claimed): the API route table, the page route table and the
\* not-found page a request has read all belong to one generation.
C4_OneGenerationRead ==
    \A t \in Threads :
        rpc[t] = "served" => (seen[t].routes = seen[t].pages /\ seen[t].pages = seen[t].nf)

\* C7 (as claimed): when a refresh fails part-way, the router's active API
\* routes, page routes and not-found page are those of the generation that
\* was active when the refresh began.
C7_FailedRefreshKeepsPrior ==
    \A t \in Threads :
        rpc[t] = "failed"
            => /\ rRoutes.gen = prior[t].routes
               /\ rPages.gen = prior[t].pages
               /\ rNotFound.gen = prior[t].nf

----------------------------------------------------------------------------
(* Claims about Endpoint._run (SpecRun) *)

\* C10: whenever init() has returned, cleanup() has run exactly once by the
\* time _run returns or raises, whichever way the try block was left (the
\* handler returned or raised, auth() raised, the verb had no handler), and
\* it is never entered a second time.
C10_CleanupExactlyOnce ==
    /\ calls.cleanup <= 1
    /\ (runPc \in {"returned", "raised"} /\ initOk) => calls.cleanup = 1
    /\ (initOk /\ calls.cleanup = 1) => runPc \in {"returned", "raised"}

C10_Witness ==
    /\ runPc = "raised"
    /\ initOk
    /\ pending = "handler_error"
    /\ calls.handler = 1
    /\ calls.cleanup = 1

\* C28: the hooks of one _run are ordered init, auth, handler, cleanup: auth
\* runs only after init returned, the handler only after auth returned and
\* never after cleanup, and nothing runs after cleanup.  When init raises,
\* neither auth, the handler nor cleanup runs.  An exception of cleanup is
\* swallowed: the caller gets the handler's result or the exception that was
\* pending, never cleanup's.
C28_HookOrder ==
    /\ calls.auth > 0 => calls.init = 1 /\ initOk
    /\ calls.handler > 0 => calls.auth = 1 /\ pending \notin {"auth_error", "init_error", "none"}
    /\ calls.cleanup > 0 => calls.auth = 1 /\ runPc \in {"returned", "raised"}
    /\ pending = "auth_error" => calls.handler = 0
    /\ pending = "init_error" =>
            calls.auth = 0 /\ calls.handler = 0 /\ calls.cleanup = 0 /\ runPc = "raised"
    /\ calls.swallowed > 0 =>
            /\ pending \in {"result", "handler_error", "error400", "error405", "auth_error"}
            /\ runPc = "returned" <=> pending = "result"
            /\ pending \in {"result", "handler_error"} <=> calls.handler = 1

\* C28 witness: init, auth and the handler returned, cleanup raised, and the
\* caller got the handler's result.
C28_Witness ==
    /\ runPc = "returned"
    /\ pending = "result"
    /\ calls = [init |-> 1, auth |-> 1, handler |-> 1, cleanup |-> 1, swallowed |-> 1]

----------------------------------------------------------------------------
(* Properties of the dispatch (SpecDispatch)                                *)

RouteMatched == MatchRoute(routes, req).found
PageMatched == MatchRoute(pageRoutes, req).found

\* The request got as far as _match_route on the API table in default, and
\* no page route of the same path is served before the endpoint.
ReachedRouting ==
    /\ method \in HttpMethods
    /\ \/ dKind = "api" /\ req \notin {<<>>, <<"__routes">>}
       \/ dKind = "plain" /\ req # <<>> /\ ~(method \in {"get", "head"} /\ PageMatched)

----------------------------------------------------------------------------
(* Properties of the binding (SpecBind)                                     *)

MergedKeys == bQuery \cup bRoute \cup (IF bBody.kind = "dict" THEN bBody.keys ELSE {})
SingleRecordBody(p) == Len(bSig) = 1 /\ p.ann = "record" /\ bBody.kind = "dict"
IsMissing(p) == p.name \notin MergedKeys /\ ~SingleRecordBody(p) /\ ~p.hasDefault

\* C12: a handler parameter whose name is a key of the JSON body object and
\* of the route or query parameters is bound to the route or query value; a
\* parameter bound to a body field has a name that neither of them has.
C12_PathQueryOverBody ==
    \A k \in DOMAIN bound.kwargs :
        /\ (bBody.kind = "dict" /\ k \in bBody.keys /\ k \in bQuery \cup bRoute)
               => bound.kwargs[k].from \in {"query", "route"}
        /\ bound.kwargs[k].from = "body" => k \notin bQuery \cup bRoute

\* C12 witness: the handler was called with one parameter taken from the
\* route although the body has a field of that name, and another taken from
\* the body.
C12_Witness ==
    /\ bound.outcome = "called"
    /\ \E k, j \in DOMAIN bound.kwargs :
        /\ k \in bBody.keys
        /\ k \in bRoute
        /\ bound.kwargs[k].from = "route"
        /\ bound.kwargs[j].from = "body"

\* C13: each parameter of a called handler got the merged entry of its name;
\* else, being the only parameter, of record type, with a JSON object body,
\* the whole body; else its default.  A parameter with none of these keeps
\* the handler from being called, and a 400 for a readable body means such a
\* parameter exists.
C13_ResolutionOrder ==
    /\ bound.outcome = "called" =>
          \A i \in 1..Len(bSig) :
              LET p == bSig[i]
                  v == bound.kwargs[p.name] IN
              /\ p.name \in MergedKeys => v.from \in {"query", "route", "body"}
              /\ (p.name \notin MergedKeys /\ SingleRecordBody(p)) => v.from = "wholebody"
              /\ (p.name \notin MergedKeys /\ ~SingleRecordBody(p)) => v.from = "default"
    /\ (bound # NoBound /\ \E i \in 1..Len(bSig) : IsMissing(bSig[i]))
          => bound.outcome \in {"error400", "coerce_error"}
    /\ (bound # NoBound /\ bBody.kind # "invalid" /\ \A i \in 1..Len(bSig) : ~IsMissing(bSig[i]))
          => bound.outcome # "error400"
    /\ (bound # NoBound /\ Len(bSig) >= 1 /\ IsMissing(bSig[1]) ) => bound.outcome = "error400"

\* C13 witness: the only parameter, a record with a declared default and no
\* merged entry, was bound to the whole body.
C13_Witness ==
    /\ bound.outcome = "called"
    /\ Len(bSig) = 1
    /\ bSig[1].hasDefault
    /\ bound.kwargs[bSig[1].name].from = "wholebody"

\* C27: a handler parameter whose name is both a query parameter and a
\* route-path parameter is bound to the route-path value; no parameter that
\* the route names is bound to a query value.
C27_RouteOverQuery ==
    \A k \in DOMAIN bound.kwargs :
        /\ k \in bRoute => bound.kwargs[k].from = "route"
        /\ bound.kwargs[k].from = "query" => k \notin bRoute

\* C27 witness: the handler was called with a parameter that the query and
\* the route both name, bound to the route value.
C27_Witness ==
    /\ bound.outcome = "called"
    /\ \E k \in DOMAIN bound.kwargs :
        /\ k \in bQuery \cap bRoute
        /\ bound.kwargs[k].from = "route"

----------------------------------------------------------------------------
(* Properties of token validation (SpecTok)                                 *)

HasDigitParamSeg(fs) ==
    \E i \in 1..Len(fs) : \E j \in 1..Len(fs[i]) :
        fs[i][j].br /\ IsDigitLeading(fs[i][j].name)

\* C14 (as claimed): a build from a tree holding a bracket-wrapped segment
\* whose name starts with a digit ends in an error and produces no table, in
\* either copy of the router.
C14_DigitParamRejected ==
    HasDigitParamSeg(tkFiles) =>
        /\ tkRouting.done => (tkRouting.error /\ tkRouting.table = <<>>)
        /\ tkCore.done => (tkCore.error /\ tkCore.table = <<>>)

----------------------------------------------------------------------------
(* Properties of the symbol index (SpecIndex)                               *)

DeclaredIn(j, name) == \E i \in 1..Len(scanFiles[j].classes) : scanFiles[j].classes[i].name = name
DeclIn(j, name) ==
    LET i == CHOOSE i \in 1..Len(scanFiles[j].classes) : scanFiles[j].classes[i].name = name
    IN  scanFiles[j].classes[i].decl
FilesDeclaring(name) == {j \in 1..Len(scanFiles) : DeclaredIn(j, name)}
SetMin(S) == CHOOSE x \in S : \A y \in S : x <= y

\* collect_dataclass_fields_including_bases on a declaration: its own field,
\* else the field of the base the index resolves by name.
InheritedField ==
    IF FilesDeclaring("Base") = {} THEN "none"
    ELSE DeclIn(SetMin(FilesDeclaring("Base")), "Base").own
EffectiveField(decl) ==
    IF decl.own # "none" THEN decl.own
    ELSE IF decl.bases # <<>> THEN InheritedField
    ELSE "none"

C16_RecordAliasExclusive ==
    /\ (DOMAIN symbolIndex.dataclasses) \cap (DOMAIN symbolIndex.aliases) = {}
    /\ (scanPos > Len(scanFiles)
          /\ FilesDeclaring("Note") # {}
          /\ \E j \in 1..Len(scanFiles) : "Note" \in scanFiles[j].aliases)
       => symbolIndex.error # NoError

\* C16 witness: the alias was registered from the first file and the record
\* of the same name in the second file was refused.
C16_Witness ==
    /\ symbolIndex.error.kind = "alias_then_dataclass"
    /\ symbolIndex.error.first = 1
    /\ symbolIndex.error.second = 2
    /\ "Note" \in DOMAIN symbolIndex.aliases
    /\ "Note" \notin DOMAIN symbolIndex.dataclasses

----------------------------------------------------------------------------
(* Properties of the contract generation (SpecGen)                          *)

GenEndpoints == CollectEndpoints(genFiles)
GenTokens(i) == TokensFromPath(genFiles[i].stem)

\* Two route files whose token lists differ in parameter names only.
SameShapeFiles(i, j) == i # j /\ IsDynamic(genFiles[i]) /\ SameShape(GenTokens(i), GenTokens(j))

InContract(i) ==
    /\ contract.done
    /\ ~contract.collision.found
    /\ \E n \in 1..Len(contract.cases) : contract.cases[n].src = i

\* C17 (as claimed): two distinct dynamic keys with one template abort the
\* generation with an error naming both keys and both files, and two route
\* files that differ only in parameter names never both reach the contract.
C17_ShapeCollisionAborts ==
    contract.done =>
        /\ \A i, j \in 1..Len(genFiles) :
              (i # j /\ IsDynamic(genFiles[i])
                     /\ GenEndpoints[i].template = GenEndpoints[j].template)
                 => /\ contract.collision.found
                    /\ {contract.collision.first, contract.collision.second}
                           \subseteq {GenEndpoints[n].key : n \in 1..Len(genFiles)}
                    /\ contract.collision.first # contract.collision.second
                    /\ contract.collision.firstSrc # contract.collision.secondSrc
        /\ \A i, j \in 1..Len(genFiles) :
              SameShapeFiles(i, j) => ~(InContract(i) /\ InContract(j))

\* The route files whose tokens the request's path matches.
PathMatches(i) == EntryMatches([tokens |-> GenTokens(i)], genPath)

\* C19 (as claimed): when the path matches more than one dynamic route, all
\* defining the request's verb, the file the router selects is the file
\* whose spec the emitted types select for the request's key.
C19_RuntimeAndTypesAgree ==
    (/\ picked.done
     /\ Cardinality({i \in 1..Len(genFiles) : PathMatches(i) /\ IsDynamic(genFiles[i])}) > 1
     /\ \A i \in 1..Len(genFiles) : PathMatches(i) => genFiles[i].verb = genVerb)
        => picked.runtime = picked.typed

----------------------------------------------------------------------------
(* Properties of the emitted declarations (SpecType)                       *)

\* The translation of a method's declared return type: unknown without an
\* annotation, void for None.
DeclaredReturnType(m) ==
    IF m.returns = NoAnnotation THEN TsSym("unknown")
    ELSE LET t == ToTypescriptType(m.returns, typeIndex, TRUE, {})
         IN  IF t.ts = TsSym("null") THEN TsSym("void") ELSE t.ts

\* The response entries the contract file holds for an endpoint key.
SpecResponses(key) ==
    {typeOutput[j].types[1] :
        j \in {k \in DOMAIN typeOutput :
                 typeOutput[k].decl = "spec" /\ typeOutput[k].name = key}}

\* C18: once the contract file is written, the response entry of every
\* discovered handler method, post included, is the translation of the
\* method's declared return type.
C18_ResponseIsDeclaredReturn ==
    typePhase = "done" =>
        \A i \in DOMAIN typeMethods :
            SpecResponses(typeMethods[i].key) = {DeclaredReturnType(typeMethods[i])}

\* The annotations the generation translates for an endpoint: the return
\* annotation of a method without a body, the parameters of one with a body.
TranslatedAnnotations(m) ==
    IF m.verb \in BodyMethods THEN {m.params[i] : i \in DOMAIN m.params}
    ELSE {m.returns} \ {NoAnnotation}

\* The records a translated type names: an alias is translated to its own
\* symbol, so the records of its definition are not among them.
RecordsNamed(ann) == ToTypescriptType(ann, typeIndex, TRUE, {}).dataclasses

RECURSIVE FieldClosure(_)
FieldClosure(R) ==
    LET more == R \cup UNION {UNION {RecordsNamed(typeIndex.dataclasses[r][i]) :
                                       i \in DOMAIN typeIndex.dataclasses[r]} :
                                r \in R}
    IN  IF more = R THEN R ELSE FieldClosure(more)

\* The records reachable from the endpoints' translated types, directly or
\* through the fields of reachable records.
ReachableRecords ==
    FieldClosure(UNION {RecordsNamed(a) :
                          a \in UNION {TranslatedAnnotations(typeMethods[i]) :
                                         i \in DOMAIN typeMethods}})

InterfaceCount(name) ==
    Cardinality({j \in DOMAIN typeOutput :
                   typeOutput[j].decl = "record" /\ typeOutput[j].name = name})

\* C20: the emission ends, also for records that name each other in a
\* cycle, and once the contract file is written every record reachable from
\* an endpoint's translated types has exactly one interface in it and no
\* other record has any.
C20_ReachableEmittedOnce ==
    typePhase = "done" =>
        \A r \in TypeRecords :
            InterfaceCount(r) = IF r \in ReachableRecords THEN 1 ELSE 0

\* C20 witness: Note and Other name each other, an endpoint returns Note,
\* and the finished file holds one interface of each.
C20_Witness ==
    /\ typePhase = "done"
    /\ typeIndex.dataclasses["Note"] = <<NameNode("Other")>>
    /\ typeIndex.dataclasses["Other"] = <<NameNode("Note")>>
    /\ typeMethods[1].returns = NameNode("Note")
    /\ InterfaceCount("Note") = 1
    /\ InterfaceCount("Other") = 1

\* the record names that occur in the lines of the contract file
NamesInOutput ==
    UNION {{typeOutput[j].types[i].sym : i \in DOMAIN typeOutput[j].types} :
             j \in DOMAIN typeOutput} \cap TypeRecords

\* C29 (as claimed): once the contract file is written, every record name
\* occurring in one of its lines (a response, a parameter interface, a record
\* field, the right-hand side of an alias) has its interface in the file.
C29_NamedRecordsDeclared ==
    typePhase = "done" => \A r \in NamesInOutput : InterfaceCount(r) >= 1

(* Properties of the endpoint spec entries (SpecSig)                        *)

\* the lines of the contract file with this declaration kind and name
LinesOf(decl, name) ==
    {j \in DOMAIN typeOutput : typeOutput[j].decl = decl /\ typeOutput[j].name = name}

\* the translated annotations of the parameters the decorator does not name
ExpectedBodyTypes(m) ==
    LET kept == SelectSeq([i \in DOMAIN m.params |-> i], LAMBDA i : i \notin m.query)
    IN  [k \in DOMAIN kept |->
            ToTypescriptType(m.params[kept[k]], typeIndex, TRUE, {}).ts]

\* C24: in the finished contract file each method has one spec entry; for
\* post, put and patch its body is the method's parameter interface, emitted
\* once with the signature parameters that are not query parameters; for any
\* other method the body is "never" and no parameter interface is emitted.
C24_BodyIffMutatingVerb ==
    typePhase = "done" =>
        \A i \in DOMAIN typeMethods :
            LET m == typeMethods[i]
                entries == LinesOf("spec", m.key)
                bodies == LinesOf("params", BodyExportName(m))
            IN  /\ Cardinality(entries) = 1
                /\ IF m.verb \in {"post", "put", "patch"}
                   THEN /\ \A j \in entries : typeOutput[j].body = BodyExportName(m)
                        /\ Cardinality(bodies) = 1
                        /\ \A j \in bodies : typeOutput[j].types = ExpectedBodyTypes(m)
                   ELSE /\ \A j \in entries : typeOutput[j].body = "never"
                        /\ bodies = {}

\* C24 witness: a delete method with a parameter beside a post method whose
\* first parameter is a query parameter; the file holds the interface of the
\* post method with its second parameter alone.
C24_Witness ==
    /\ typePhase = "done"
    /\ Len(typeMethods) = 2
    /\ typeMethods[1].verb = "delete"
    /\ typeMethods[1].params = <<NameNode("Other")>>
    /\ typeMethods[1].query = {}
    /\ typeMethods[2].verb = "post"
    /\ typeMethods[2].params = <<NameNode("int"), NameNode("Other")>>
    /\ typeMethods[2].query = {1}
    /\ \E j \in DOMAIN typeOutput :
          typeOutput[j] = [decl |-> "params", name |-> "NotePostBody",
                           types |-> <<TsSym("Other")>>]

(* Properties of the generic templates (SpecSub)                            *)

\* C25 (as claimed): when the loaded mapping holds a template under the base
\* name the annotation is written with, with as many parameters as the
\* annotation has arguments, the annotation translates to that template
\* filled with the arguments.
C25_TemplateApplied ==
    (/\ subPc = "done"
     /\ subNode.base \in DOMAIN genericTypeMap
     /\ genericTypeMap[subNode.base].params = Len(subNode.args))
        => subResult = Rendered(genericTypeMap[subNode.base].template, subNode.args)

(* Properties of alias inlining (SpecCyc)                                   *)

\* the name reached from id after following k alias definitions
RECURSIVE Follow(_, _)
Follow(id, k) ==
    IF k = 0 \/ id \notin DOMAIN typeIndex.aliases THEN id
    ELSE Follow(typeIndex.aliases[id].id, k - 1)

\* the definitions followed from id never leave the alias table
Cyclic(id) == Follow(id, Cardinality(DOMAIN typeIndex.aliases)) \in DOMAIN typeIndex.aliases

\* C22: for every alias table, the translation of an alias definition ends;
\* it inlines each alias at most once on the way, gives "unknown" exactly
\* when the definitions lead back to an alias being inlined, and leaves the
\* resolving set as it found it; the emitted alias lines carry that text.
C22_CyclicAliasesEnd ==
    /\ \A a \in DOMAIN typeIndex.aliases :
          \A R \in SUBSET (DOMAIN typeIndex.aliases) :
              LET t == ToTypescriptType(typeIndex.aliases[a], typeIndex, FALSE, R)
              IN  /\ t.resolving = R
                  /\ t.ts.dims <= Cardinality(DOMAIN typeIndex.aliases) + 1
                  /\ R = {} => (t.ts.sym = "unknown" <=> Cyclic(typeIndex.aliases[a].id))
    /\ \A j \in DOMAIN typeOutput :
          typeOutput[j].decl = "alias" =>
              /\ typeOutput[j].types[1].sym = "unknown"
                    <=> Cyclic(typeIndex.aliases[typeOutput[j].name].id)
              /\ typeOutput[j].types[1].dims <= Cardinality(DOMAIN typeIndex.aliases) + 1

\* C22 witness: NoteList is a list of NotePage and NotePage a list of
\* NoteList; the line emitted for NoteList is unknown[][][].
C22_Witness ==
    /\ typePhase = "done"
    /\ typeIndex.aliases["NoteList"] = ListNode("NotePage")
    /\ typeIndex.aliases["NotePage"] = ListNode("NoteList")
    /\ \E j \in DOMAIN typeOutput :
          typeOutput[j] = [decl |-> "alias", name |-> "NoteList",
                           types |-> <<[sym |-> "unknown", dims |-> 3]>>]

(* Properties of a repeated run (SpecTwice)                                 *)

SameKeyFiles(i) ==
    {j \in 1..Len(genFiles) :
        EndpointKeyText(genFiles[j]) = EndpointKeyText(genFiles[i])}

\* the entries of the generated state, static and dynamic
ContractEntries == contract.statics \o contract.cases

\* C30: a generation that ends without error holds every file's key once,
\* with that file as its source; when two files share stem and verb, in
\* different directories, the generation ends in the collision error of that
\* key, naming both files, and holds no entry.
C30_KeysUniqueOrCollision ==
    contract.done =>
        IF \E i \in 1..Len(genFiles) : SameKeyFiles(i) # {i}
        THEN /\ contract.collision.found
             /\ contract.collision.first = contract.collision.second
             /\ contract.collision.firstSrc # contract.collision.secondSrc
             /\ \A src \in {contract.collision.firstSrc, contract.collision.secondSrc} :
                    EndpointKeyText(genFiles[src]) = contract.collision.first
             /\ genFiles[contract.collision.firstSrc].dir
                    # genFiles[contract.collision.secondSrc].dir
             /\ ContractEntries = <<>>
        ELSE contract.collision.found
             \/ /\ \A m, n \in 1..Len(ContractEntries) :
                       ContractEntries[m].key = ContractEntries[n].key => m = n
                /\ \A i \in 1..Len(genFiles) :
                       \E n \in 1..Len(ContractEntries) :
                           /\ ContractEntries[n].src = i
                           /\ ContractEntries[n].key = EndpointKeyText(genFiles[i])
                /\ Len(ContractEntries) = Len(genFiles)

\* C30 witness: a/[x].py and b/[x].py, both defining get, ended in the
\* collision error of their common key.
C30_Witness ==
    /\ contract.done
    /\ Len(genFiles) = 2
    /\ genFiles[1] = [dir |-> "a", stem |-> <<[name |-> "x", br |-> TRUE]>>, verb |-> "get"]
    /\ genFiles[2] = [dir |-> "b", stem |-> <<[name |-> "x", br |-> TRUE]>>, verb |-> "get"]
    /\ contract.collision.found
    /\ contract.collision.firstSrc = 1
    /\ contract.collision.secondSrc = 2

============================================================================
